---- MODULE Spec2Model ----
(***************************************************************************)
(* A model of the solving pipeline of sick (src/sick/models/model.py): the  *)
(* MCMC stage Model.infer with its sampling loop Model._sample, the local   *)
(* optimiser stage Model.optimise, and the process-wide stack of            *)
(* convolution functions generate.binning_matrices they push and pop.       *)
(*                                                                         *)
(* Numbers that are floats in the program are kept exact: an acceptance    *)
(* fraction and an exponential autocorrelation time are counted in halves,  *)
(* an integrated autocorrelation time is a whole number, and an effective  *)
(* sample count is a fraction <<numerator, denominator>>.                  *)
(***************************************************************************)
EXTENDS Integers, Sequences, FiniteSets, TLC

\* ------------------------------------------------------------------ bounds
\* No solving run is started once the stack holds this many entries.
MaxStack == 2
\* The largest number of walkers a caller asks for.
MaxWalkers == 4
\* The largest number of non-ignored model parameters.
MaxParameters == 3

\* Threads that run solving runs at the same time on the one stack.
MaxThreads == 2
\* Solving runs one thread starts, one after the other.
MaxRunsPerThread == 2
\* Model parameters of the command-line model.
MaxCliParameters == 2
\* Sources (stars) one batch run of `solve` is given.
MaxSources == 2
\* Points of a model grid.
MaxGridPoints == 3
\* The largest number of neighbours asked for on either side.
MaxNeighbours == 2
\* The highest index of a continuum coefficient in a Theta.
MaxDegree == 1
\* The most steps a sampler has taken when its run converges.
MaxConvergedSteps == 7

\* ------------------------------------------------------- program constants
\* model.py:588  increment = int(iterations / 100)
ProgressIncrements == 100
\* model.py:305  "minimum_effective_independent_samples": 100
MinimumEffectiveIndependentSamples == 100

\* --------------------------------------------------------------- inputs
\* An odd and an even number of walkers.
WalkerCounts == {MaxWalkers - 1, MaxWalkers}
\* Step counts a caller configures: invalid (0), shorter than one progress
\* increment, and exactly one hundred steps.
StepCounts == {0, 2, ProgressIncrements}
MaximumSamples == {ProgressIncrements, 2 * ProgressIncrements}
\* Exponential autocorrelation times, in halves of a step (0.5 and 49.5).
TauExpHalves == {1, 99}
\* Integrated autocorrelation times of one parameter.
TauIntValues == {1, 50}
BurnInMultiples == {1, 3}

VARIABLES
    binning_matrices,   \* generate.binning_matrices: the process-wide stack
    curses_mode,        \* the terminal: "none", "active" or "ended"
    pc,                 \* position of the running call
    error,              \* the exception that ended the call, or "none"
    kwd,                \* the keyword dictionary of the running call
    sampler,            \* the emcee sampler: chain, pool, steps taken
    smp,                \* the frame of Model._sample
    loc,                \* the local variables of Model.infer / optimise
    hist,               \* what the running call has done so far
    runs,               \* solving runs of several threads on the one stack
    cli,                \* the command-line `infer` command (clis/run.py)
    batch,              \* the batch command `solve` (cli.py)
    grid,               \* a scope.models.Models object and its last call
    evaluation,         \* a solving stage's set-up and its last model call
    mappings,           \* the dicts a stage is given, creates and returns
    segments,           \* the burn and production segments of a converged run
    estimation          \* the last call of Model.estimate

vars == <<binning_matrices, curses_mode, pc, error, kwd, sampler,
          smp, loc, hist, runs, cli, batch, grid, evaluation, mappings,
          segments, estimation>>

\* The state of one call of Model.infer or Model.optimise.
callVars == <<curses_mode, pc, error, kwd, sampler, smp, loc, hist>>

\* What the calls of Model.infer and Model.optimise leave alone.
outsideCall == <<runs, cli, batch, grid, evaluation, mappings,
    segments, estimation>>
\* What the overlapping solving runs leave alone.
outsideRuns == <<callVars, cli, batch, grid, evaluation, mappings,
    segments, estimation>>
\* What the command `infer` leaves alone.
outsideCli == <<binning_matrices, callVars, runs, batch, grid, evaluation, mappings,
    segments, estimation>>
\* What the command `solve` leaves alone.
outsideBatch == <<binning_matrices, callVars, runs, cli, grid, evaluation, mappings,
    segments, estimation>>
\* What a scope.models.Models object leaves alone.
outsideGrid == <<binning_matrices, callVars, runs, cli, batch, evaluation, mappings,
    segments, estimation>>
\* What a model evaluation leaves alone, the stack apart.
outsideEvaluation == <<callVars, runs, cli, batch, grid, mappings,
    segments, estimation>>
\* What the dicts of a stage leave alone.
outsideMappings ==
    <<binning_matrices, callVars, runs, cli, batch, grid, evaluation,
      segments, estimation>>
\* What the split of a converged run leaves alone.
outsideSegments ==
    <<binning_matrices, callVars, runs, cli, batch, grid, evaluation,
      mappings, estimation>>
\* What Model.estimate leaves alone.
outsideEstimation ==
    <<binning_matrices, callVars, runs, cli, batch, grid, evaluation,
      mappings, segments>>

\* ---------------------------------------------------------------- helpers
Range(s) == {s[k] : k \in 1..Len(s)}

\* A whole number x as a number of halves.
Halves(x) == 2 * x

\* Mean acceptance fractions of one sampler step, in halves: 0, 1/2 and 1.
MeanAcceptanceFractions == 0..Halves(1)

\* np.ceil of a time given in halves of a step.
Ceil(halves) == (halves + 1) \div 2

\* chain[:, a:] : the steps from index a (0-based) onward.
SliceFrom(chain, a) ==
    IF a >= Len(chain) THEN <<>> ELSE SubSeq(chain, (IF a < 0 THEN 0 ELSE a) + 1, Len(chain))

\* chain[:, :a] : the first a steps.
SliceTo(chain, a) ==
    IF a <= 0 THEN <<>> ELSE SubSeq(chain, 1, IF a > Len(chain) THEN Len(chain) ELSE a)

\* np.hstack([x, y]) along the step axis.
HStack(x, y) == x \o y

Threads == 1..MaxThreads
NoEntry == [run |-> <<0, 0>>]
\* used and popped record whose entry the run's last evaluation took and
\* its teardown removed: "none" before either, else "own" or "other".
NoRun == [pc |-> "idle", started |-> 0, entry |-> NoEntry, alone |-> FALSE,
          used |-> "none", used_alone |-> FALSE,
          popped |-> "none", popped_alone |-> FALSE]
Whose(entry, own) == IF entry = own THEN "own" ELSE "other"
NoCommand == [pc |-> "start", configuration |-> <<>>, initial_theta |-> <<>>,
              optimised_theta |-> <<>>, log |-> <<>>]

NoKwd == [func |-> "none"]
NoSampler == [chain |-> <<>>, n_steps |-> 0, pool |-> FALSE, pool_log |-> <<>>,
              created |-> FALSE]
NoSample == [i |-> 0, iterations |-> 0, increment |-> 0, p0 |-> 0, pos |-> 0,
             descr |-> "none", mean_acceptance_fraction |-> <<>>, updates |-> 0,
             taken |-> 0]
NoLocals == [bound |-> {}, converged |-> "unbound", total_steps |-> 0,
             burn |-> 0, sample |-> 0, burn_chains |-> <<>>,
             production_chains |-> <<>>, tau_exp |-> 0,
             tau_exp_raised |-> FALSE, tau_int |-> <<>>,
             acceptance_fractions |-> <<>>, chains |-> <<>>,
             percentile_source |-> <<>>, parameters |-> 0]
NoHistory == [pushes |-> 0, pops |-> 0, stack_at_call |-> <<>>, sample_calls |-> 0, chain_at_check |-> 0,
              resets |-> 0, checks |-> 0, passed |-> 0]

\* ------------------------------------------- the stack of convolution functions
\* _create_convolution_functions: generate.binning_matrices.append(...)
CreateConvolutionFunctions(stack, entry) == Append(stack, entry)

\* A teardown that removes the oldest entry: pop(0) for pop(-1).
DestroyOldestFunctions(stack) == SubSeq(stack, 2, Len(stack))

\* _destroy_convolution_functions: generate.binning_matrices.pop(-1)
DestroyConvolutionFunctions(stack) == SubSeq(stack, 1, Len(stack) - 1)

\* An evaluation that takes the oldest entry: [0] for [-1].
OldestConvolutionFunctions(stack) == stack[1]

\* Model.__call__: generate.binning_matrices[-1]
ActiveConvolutionFunctions(stack) == stack[Len(stack)]

\* ------------------------------------------------------------ Model.infer
\* The keyword dictionaries a caller can build. Keywords the chosen mode never
\* reads keep the value 1.
FixedKeywords ==
    [func : {"infer"}, auto_convergence : {FALSE},
     walkers : WalkerCounts, burn : StepCounts, sample : StepCounts,
     minimum_sample : {1}, maximum_sample : {1},
     check_convergence_frequency : {1}, n_tau_exp_as_burn_in : {1},
     minimum_effective_independent_samples : {1},
     threads : {1, 2}, show_progress_bar : BOOLEAN,
     keep_convolution_functions : BOOLEAN]

AutoKeywords ==
    [func : {"infer"}, auto_convergence : {TRUE},
     walkers : WalkerCounts, burn : {1}, sample : {1},
     minimum_sample : StepCounts, maximum_sample : MaximumSamples,
     check_convergence_frequency : StepCounts \ {0},
     n_tau_exp_as_burn_in : BurnInMultiples,
     minimum_effective_independent_samples :
        {MinimumEffectiveIndependentSamples},
     threads : {1, 2}, show_progress_bar : BOOLEAN,
     keep_convolution_functions : {FALSE}]

\* The same dictionary with the key "n" added by the caller.
WithN(k) == [x \in DOMAIN k \cup {"n"} |-> IF x = "n" THEN 1 ELSE k[x]]

InferKeywords ==
    FixedKeywords \cup AutoKeywords
        \cup {WithN(k) : k \in {a \in AutoKeywords : a.threads = 1}}

\* A check of the walkers that forgets the number of parameters.
WalkersAcceptedWhenEven(walkers, n_parameters) == ~(walkers % 2 > 0)

\* model.py:316  the number of walkers is even and at least 2 * len(parameters)
WalkersAccepted(walkers, n_parameters) ==
    ~(walkers % 2 > 0 \/ walkers < 2 * n_parameters)

\* model.py:320-328  the keywords that must be positive
CheckKeywords(k) ==
    IF k.auto_convergence
    THEN <<"threads", "minimum_sample", "check_convergence_frequency",
           "minimum_effective_independent_samples", "n_tau_exp_as_burn_in",
           "maximum_sample">>
    ELSE <<"threads", "burn", "sample">>

\* model.py:333-336
KeywordsAccepted(k) ==
    \A j \in 1..Len(CheckKeywords(k)) : ~(k[CheckKeywords(k)[j]] < 1)

\* model.py:590-593  curses.initscr() when the progress bar is shown
InitScr(mode, progress_bar) == IF progress_bar THEN "active" ELSE mode

\* model.py:586-593  the entry of _sample: the frame, and curses.initscr()
SampleFrame(p0, iterations, descr) ==
    [i |-> 0, iterations |-> iterations,
     increment |-> iterations \div ProgressIncrements,
     p0 |-> p0, pos |-> 0, descr |-> descr,
     mean_acceptance_fraction |-> [j \in 1..iterations |-> 0],
     updates |-> 0, taken |-> 0]

\* model.py:382  emcee creates a pool exactly when threads > 1
CreateSampler(k) ==
    [chain |-> <<>>, n_steps |-> 0, pool |-> k.threads > 1, pool_log |-> <<>>,
     created |-> TRUE]

NoError == [name |-> "none", line |-> 0]

\* An exception leaves the call: its class and the source line that raises it.
Raise(name, line) ==
    /\ pc' = "raised"
    /\ error' = [name |-> name, line |-> line]

\* model.py:261-402  infer up to the first step of the initial _sample call
InferCall(k, n_parameters) ==
    /\ pc = "idle"
    /\ Len(binning_matrices) < MaxStack
    /\ kwd' = k
    /\ loc' = [NoLocals EXCEPT !.parameters = n_parameters]
    /\ IF ~WalkersAccepted(k.walkers, n_parameters) \/ ~KeywordsAccepted(k)
       THEN /\ Raise("ValueError",
                     IF ~WalkersAccepted(k.walkers, n_parameters) THEN 317 ELSE 335)
            /\ hist' = [NoHistory EXCEPT !.stack_at_call = binning_matrices]
            /\ UNCHANGED <<binning_matrices, curses_mode, sampler, smp>>
       ELSE /\ binning_matrices' = CreateConvolutionFunctions(binning_matrices,
                    [run |-> Len(binning_matrices) + 1])
            /\ sampler' = CreateSampler(k)
            /\ smp' = SampleFrame(0,
                    IF k.auto_convergence THEN k.minimum_sample ELSE k.burn,
                    IF k.auto_convergence THEN "" ELSE "burn-in")
            /\ curses_mode' = InitScr(curses_mode, k.show_progress_bar)
            /\ hist' = [NoHistory EXCEPT !.stack_at_call = binning_matrices,
                                         !.pushes = 1, !.sample_calls = 1]
            /\ pc' = IF k.auto_convergence THEN "sample_initial" ELSE "sample_burn"
            /\ error' = NoError

InferStart ==
    /\ pc = "idle"
    /\ \E k \in InferKeywords, n \in 1..MaxParameters : InferCall(k, n)
    /\ UNCHANGED outsideCall

\* ----------------------------------------------------------- Model._sample
InSample == pc \in {"sample_initial", "sample_burn", "sample_production",
                    "sample_extra"}

AfterSample(p) ==
    CASE p = "sample_initial" -> "after_initial"
      [] p = "sample_burn" -> "after_burn"
      [] p = "sample_production" -> "after_production"
      [] p = "sample_extra" -> "after_extra"

\* model.py:637  mean_acceptance_fraction[i] in (0, 1)
Degenerate(af) == af \in {Halves(0), Halves(1)}

\* model.py:608  i % increment, which divides by zero when increment is 0
ProgressDivides(frame) == frame.increment /= 0

\* model.py:596-639  one pass of the loop over sampler.sample(...)
SampleStep(af) ==
    /\ InSample
    /\ smp.i < smp.iterations
    /\ LET step == sampler.n_steps + 1
           frame == [smp EXCEPT !.mean_acceptance_fraction[smp.i + 1] = af,
                                !.pos = step, !.taken = @ + 1]
       IN /\ sampler' = [sampler EXCEPT !.chain = Append(@, step),
                                        !.n_steps = step]
          /\ IF kwd.show_progress_bar /\ ~ProgressDivides(frame)
             THEN /\ smp' = frame
                  /\ Raise("ZeroDivisionError", 608)
             ELSE IF Degenerate(af)
             THEN /\ smp' = [frame EXCEPT !.updates = @ + 1]
                  /\ Raise("RuntimeError", 638)
             ELSE /\ smp' = [frame EXCEPT !.updates = @ + 1, !.i = @ + 1]
                  /\ UNCHANGED <<pc, error>>
    /\ UNCHANGED <<binning_matrices, curses_mode, kwd, loc, hist>>
    /\ UNCHANGED outsideCall

\* model.py:641-649  curses.echo() raises unless curses.initscr() was called
\* before; curses.endwin() called a second time with no screen update in
\* between succeeds or fails, as the curses library of the platform decides.
SampleReturn(endwin_again_fails) ==
    /\ InSample
    /\ smp.i = smp.iterations
    /\ IF curses_mode = "none"
       THEN /\ Raise("curses.error", 641)
            /\ UNCHANGED curses_mode
       ELSE IF curses_mode = "ended" /\ endwin_again_fails
       THEN /\ Raise("curses.error", 643)
            /\ UNCHANGED curses_mode
       ELSE /\ pc' = AfterSample(pc)
            /\ curses_mode' = "ended"
            /\ UNCHANGED error
    /\ UNCHANGED <<binning_matrices, kwd, sampler, smp, loc, hist>>
    /\ UNCHANGED outsideCall

\* ------------------------------------------------- Model.infer, continued
\* model.py:519-578  close the pool, stack the segments, summarise, tear down
Finish(l) ==
    /\ sampler' = [sampler EXCEPT !.pool_log =
            IF sampler.pool THEN @ \o <<"close", "join">> ELSE @]
    /\ UNCHANGED <<curses_mode, kwd, smp>>
    /\ IF ~({"burn_chains", "production_chains"} \subseteq l.bound)
       THEN /\ Raise("UnboundLocalError", 526)
            /\ loc' = l
            /\ UNCHANGED <<binning_matrices, hist>>
       ELSE /\ loc' = [l EXCEPT
                    !.chains = HStack(l.burn_chains, l.production_chains),
                    !.percentile_source =
                        SliceFrom(HStack(l.burn_chains, l.production_chains),
                                  l.burn),
                    !.acceptance_fractions = @]
            /\ IF kwd.keep_convolution_functions
               THEN UNCHANGED <<binning_matrices, hist>>
               ELSE /\ binning_matrices' =
                        DestroyConvolutionFunctions(binning_matrices)
                    /\ hist' = [hist EXCEPT !.pops = @ + 1]
            /\ pc' = "returned"
            /\ UNCHANGED error

\* A reset that leaves the burn-in steps in the chain.
ResetSamplerKeepsChain(s) == s

\* model.py:416  sampler.reset() empties the chain of the sampler
ResetSampler(s) == [s EXCEPT !.chain = <<>>]

\* model.py:403-422  fixed mode: keep the burn-in, reset, start production
InferAfterBurn ==
    /\ pc = "after_burn"
    /\ loc' = [loc EXCEPT
            !.acceptance_fractions = Append(@, smp.mean_acceptance_fraction),
            !.burn = kwd.burn, !.sample = kwd.sample, !.converged = "None",
            !.burn_chains = sampler.chain,
            !.bound = @ \cup {"burn", "sample", "converged", "burn_chains"}]
    /\ sampler' = ResetSampler(sampler)
    /\ smp' = SampleFrame(smp.pos, kwd.sample, "production")
    /\ curses_mode' = InitScr(curses_mode, kwd.show_progress_bar)
    /\ hist' = [hist EXCEPT !.resets = @ + 1, !.sample_calls = @ + 1]
    /\ pc' = "sample_production"
    /\ UNCHANGED <<binning_matrices, error, kwd>>
    /\ UNCHANGED outsideCall

\* model.py:424-426, 519-578  fixed mode: the production segment, then the end
InferAfterProduction ==
    /\ pc = "after_production"
    /\ Finish([loc EXCEPT
            !.production_chains = sampler.chain,
            !.acceptance_fractions = Append(@, smp.mean_acceptance_fraction),
            !.bound = @ \cup {"production_chains"}])
    /\ UNCHANGED outsideCall

\* model.py:403, 432-434  auto mode: enter the convergence loop
InferAfterInitial ==
    /\ pc = "after_initial"
    /\ loc' = [loc EXCEPT
            !.acceptance_fractions = Append(@, smp.mean_acceptance_fraction),
            !.converged = "False", !.total_steps = 0 + smp.iterations,
            !.bound = @ \cup {"converged"}]
    /\ pc' = "loop"
    /\ UNCHANGED <<binning_matrices, curses_mode, error, kwd, sampler,
                   smp, hist>>
    /\ UNCHANGED outsideCall

\* An effective sample count is the fraction <<numerator, denominator>>.
\* model.py:473  num_effective = (walkers * sample) / (2 * tau_int)
NumEffective(walkers, sample, tau_int) ==
    [p \in DOMAIN tau_int |-> <<walkers * sample, 2 * tau_int[p]>>]

\* num_effective.min()
MinFraction(fs) ==
    CHOOSE f \in Range(fs) : \A g \in Range(fs) : f[1] * g[2] <= g[1] * f[2]

\* A test that accepts a count equal to the minimum: >= for >.
MeetsMinimumOrEqual(fs, min_eis_required) ==
    MinFraction(fs)[1] >= min_eis_required * MinFraction(fs)[2]

\* model.py:480  num_effective.min() > min_eis_required
MeetsMinimum(fs, min_eis_required) ==
    MinFraction(fs)[1] > min_eis_required * MinFraction(fs)[2]

\* model.py:455  burn = int(np.ceil(tau_exp)) * kwd["n_tau_exp_as_burn_in"]
BurnIn(tau_exp, n_tau_exp_as_burn_in) == Ceil(tau_exp) * n_tau_exp_as_burn_in

\* model.py:500-508  another batch of check_convergence_frequency steps
KeepSampling(l) ==
    /\ loc' = l
    /\ smp' = SampleFrame(smp.pos, kwd.check_convergence_frequency, "")
    /\ curses_mode' = InitScr(curses_mode, kwd.show_progress_bar)
    /\ pc' = "sample_extra"
    /\ UNCHANGED <<binning_matrices, error, kwd, sampler>>

\* model.py:435  while not converged and kwd["maximum_sample"] > total_steps
LoopContinuesUnconverged(l, k) == l.converged = "False"
LoopContinues(l, k) ==
    l.converged = "False" /\ k.maximum_sample > l.total_steps

\* model.py:442-448  except: ... tau_exp = total_steps
RecoveredFromNothing(total_steps) == Halves(0)
Recovered(total_steps) == Halves(total_steps)

\* model.py:435-508, 515-517  one test of the while condition and its body
InferLoop(tau_exp_raises, tau_exp_halves, tau_int) ==
    /\ pc = "loop"
    /\ IF ~LoopContinues(loc, kwd)
       THEN /\ Finish(loc)
       ELSE LET tau_exp == IF tau_exp_raises THEN Recovered(loc.total_steps)
                           ELSE tau_exp_halves
                burn == BurnIn(tau_exp, kwd.n_tau_exp_as_burn_in)
                sample == Len(sampler.chain) - burn
                l1 == [loc EXCEPT !.tau_exp = tau_exp,
                                  !.tau_exp_raised = tau_exp_raises,
                                  !.burn = burn,
                                  !.sample = sample, !.tau_int = <<>>,
                                  !.bound = @ \cup {"burn", "sample"}]
                l2 == [l1 EXCEPT !.tau_int = tau_int]
            IN IF 1 > sample
               THEN /\ KeepSampling(l1)
                    /\ hist' = [hist EXCEPT !.checks = @ + 1, !.chain_at_check = Len(sampler.chain),
                                            !.sample_calls = @ + 1]
               ELSE IF MeetsMinimum(
                        NumEffective(kwd.walkers, sample, tau_int),
                        kwd.minimum_effective_independent_samples)
               THEN /\ loc' = [l2 EXCEPT !.converged = "True"]
                    /\ hist' = [hist EXCEPT !.checks = @ + 1, !.chain_at_check = Len(sampler.chain), !.passed = @ + 1]
                    /\ Raise("IndexError", 483)
                    /\ UNCHANGED <<binning_matrices, curses_mode, kwd,
                                   sampler, smp>>
               ELSE IF "n" \notin DOMAIN kwd
               THEN /\ loc' = l2
                    /\ hist' = [hist EXCEPT !.checks = @ + 1, !.chain_at_check = Len(sampler.chain)]
                    /\ Raise("KeyError", 498)
                    /\ UNCHANGED <<binning_matrices, curses_mode, kwd,
                                   sampler, smp>>
               ELSE /\ KeepSampling(l2)
                    /\ hist' = [hist EXCEPT !.checks = @ + 1, !.chain_at_check = Len(sampler.chain),
                                            !.sample_calls = @ + 1]

InferCheck ==
    /\ pc = "loop"
    /\ \E r \in BOOLEAN, t \in TauExpHalves,
          ti \in [1..loc.parameters -> TauIntValues] : InferLoop(r, t, ti)
    /\ UNCHANGED outsideCall

\* model.py:510-513  last_state.extend(pos, lnprob, rstate) takes one argument
InferAfterExtra ==
    /\ pc = "after_extra"
    /\ loc' = [loc EXCEPT
            !.total_steps = @ + smp.iterations,
            !.acceptance_fractions = Append(@, smp.mean_acceptance_fraction)]
    /\ Raise("TypeError", 512)
    /\ UNCHANGED <<binning_matrices, curses_mode, kwd, sampler, smp,
                   hist>>
    /\ UNCHANGED outsideCall

\* ---------------------------------------------------------- Model.optimise
\* model.py:833-900  optimise up to the call of the minimiser
OptimiseCall(full_output) ==
    /\ pc = "idle"
    /\ Len(binning_matrices) < MaxStack
    /\ kwd' = [func |-> "optimise", full_output |-> full_output]
    /\ binning_matrices' = CreateConvolutionFunctions(binning_matrices,
            [run |-> Len(binning_matrices) + 1])
    /\ hist' = [NoHistory EXCEPT !.stack_at_call = binning_matrices,
                                 !.pushes = 1]
    /\ pc' = "minimising"
    /\ UNCHANGED <<curses_mode, error, sampler, smp, loc>>
    /\ UNCHANGED outsideCall

\* model.py:918  op.minimise returns the optimum, or raises
OptimiseMinimise(succeeds) ==
    /\ pc = "minimising"
    /\ IF succeeds
       THEN /\ pc' = "minimised"
            /\ UNCHANGED error
       ELSE Raise("Exception", 918)
    /\ UNCHANGED <<binning_matrices, curses_mode, kwd, sampler, smp,
                   loc, hist>>
    /\ UNCHANGED outsideCall

\* model.py:921-937  build the result, tear down, return
OptimiseReturn ==
    /\ pc = "minimised"
    /\ binning_matrices' = DestroyConvolutionFunctions(binning_matrices)
    /\ hist' = [hist EXCEPT !.pops = @ + 1]
    /\ pc' = "returned"
    /\ UNCHANGED <<curses_mode, error, kwd, sampler, smp, loc>>
    /\ UNCHANGED outsideCall

\* The caller takes the result or the exception; the frame of the call is gone.
\* What the call left in the process stays: the stack, the curses state.
CallEnds ==
    /\ pc \in {"returned", "raised"}
    /\ pc' = "idle"
    /\ error' = NoError
    /\ kwd' = NoKwd
    /\ sampler' = NoSampler
    /\ smp' = NoSample
    /\ loc' = NoLocals
    /\ hist' = NoHistory
    /\ UNCHANGED <<binning_matrices, curses_mode>>
    /\ UNCHANGED outsideCall

\* ------------------------------------ solving runs that overlap in time
\* Each thread runs optimise or infer: it pushes its convolution functions,
\* evaluates the model any number of times, and tears down.
\* model.py:376, 896  self._create_convolution_functions(...)
RunCreate(t) ==
    /\ runs[t].pc = "idle"
    /\ runs[t].started < MaxRunsPerThread
    /\ LET entry == [run |-> <<t, runs[t].started + 1>>]
       IN /\ binning_matrices' =
                CreateConvolutionFunctions(binning_matrices, entry)
          /\ runs' = [u \in Threads |->
                IF u = t
                THEN [NoRun EXCEPT !.pc = "solving",
                                   !.started = runs[t].started + 1,
                                   !.entry = entry, !.alone = TRUE]
                ELSE [runs[u] EXCEPT !.alone = FALSE]]
    /\ UNCHANGED outsideRuns

\* model.py:1000-1009  Model.__call__ takes the functions on top of the stack
RunEvaluate(t) ==
    /\ runs[t].pc = "solving"
    /\ runs' = [runs EXCEPT
            ![t].used = Whose(ActiveConvolutionFunctions(binning_matrices),
                              runs[t].entry),
            ![t].used_alone = runs[t].alone]
    /\ UNCHANGED <<binning_matrices, outsideRuns>>

\* model.py:564, 930, 935  self._destroy_convolution_functions()
RunDestroy(t) ==
    /\ runs[t].pc = "solving"
    /\ binning_matrices' = DestroyConvolutionFunctions(binning_matrices)
    /\ runs' = [u \in Threads |->
            IF u = t
            THEN [runs[t] EXCEPT
                    !.pc = "idle",
                    !.popped = Whose(binning_matrices[Len(binning_matrices)],
                                     runs[t].entry),
                    !.popped_alone = runs[t].alone]
            ELSE [runs[u] EXCEPT !.alone = FALSE]]
    /\ UNCHANGED outsideRuns

NextOverlap ==
    \/ \E t \in Threads : RunCreate(t)
    \/ \E t \in Threads : RunEvaluate(t)
    \/ \E t \in Threads : RunDestroy(t)

\* ------------------------------------- the command `infer` of clis/run.py
CliParameters == 1..MaxCliParameters
ThetaValues == {0, 1}

\* A Theta: a value for each parameter of some set of parameters.
Thetas(parameters) == [parameters -> ThetaValues]
PartialThetas == UNION {Thetas(ps) : ps \in SUBSET CliParameters}

\* The difference taken the wrong way round: the configured names that are
\* no model parameters.
InitialThetaWithinParameters(parameters, initial_theta) ==
    Cardinality(DOMAIN initial_theta \ parameters) = 0

\* run.py:307  len(set(model.parameters).difference(initial_theta)) == 0
InitialThetaComplete(parameters, initial_theta) ==
    Cardinality(parameters \ DOMAIN initial_theta) = 0

Logged(stage, given, ok, returned) ==
    [stage |-> stage, given |-> given, ok |-> ok, returned |-> returned]

\* run.py:355-363, 295-312  infer() calls optimise(), which reads the
\* configured initial_theta and decides whether to estimate
CliInferCommand(configured) ==
    /\ cli.pc = "start"
    /\ cli' = [cli EXCEPT
            !.configuration = configured,
            !.initial_theta = configured,
            !.pc = IF InitialThetaComplete(CliParameters, configured)
                   THEN "optimise" ELSE "estimate"]
    /\ UNCHANGED outsideCli

\* run.py:253-283  estimate(): model.estimate returns a Theta or raises
CliEstimate(ok, theta) ==
    /\ cli.pc = "estimate"
    /\ cli' = [cli EXCEPT
            !.log = Append(@, Logged("estimate", <<>>, ok,
                                     IF ok THEN theta ELSE <<>>)),
            !.initial_theta = IF ok THEN theta ELSE @,
            !.pc = IF ok THEN "optimise" ELSE "failed"]
    /\ UNCHANGED outsideCli

\* run.py:314-342  model.optimise(data, initial_theta=initial_theta, ...)
CliOptimise(ok, theta) ==
    /\ cli.pc = "optimise"
    /\ cli' = [cli EXCEPT
            !.log = Append(@, Logged("optimise", cli.initial_theta, ok,
                                     IF ok THEN theta ELSE <<>>)),
            !.optimised_theta = IF ok THEN theta ELSE @,
            !.pc = IF ok THEN "infer" ELSE "failed"]
    /\ UNCHANGED outsideCli

\* run.py:365-391  model.infer(data, initial_proposal=optimised_theta, ...)
CliInfer(ok) ==
    /\ cli.pc = "infer"
    /\ cli' = [cli EXCEPT
            !.log = Append(@, Logged("infer", cli.optimised_theta, ok, <<>>)),
            !.pc = IF ok THEN "done" ELSE "failed"]
    /\ UNCHANGED outsideCli

NextCli ==
    \/ \E configured \in PartialThetas : CliInferCommand(configured)
    \/ \E ok \in BOOLEAN, theta \in Thetas(CliParameters) : CliEstimate(ok, theta)
    \/ \E ok \in BOOLEAN, theta \in Thetas(CliParameters) : CliOptimise(ok, theta)
    \/ \E ok \in BOOLEAN : CliInfer(ok)

\* ------------------------------------- the batch command `solve` of cli.py
Sources == 1..MaxSources
\* Where the analysis of one source raises, if anywhere.
FailureStages == {"none", "initial_theta", "optimise", "infer"}
\* args.number_to_solve: "all" or a count.
NumbersToSolve ==
    {[all |-> TRUE, count |-> 0]} \cup {[all |-> FALSE, count |-> c] : c \in Sources}

NoBatch == [pc |-> "start", args |-> <<>>, fails |-> <<>>, i |-> 0,
            started |-> {}, log |-> <<>>, written |-> {},
            error |-> [name |-> "none", line |-> 0]]

\* cli.py:222-252  solve(args): the arguments, the model settings and the
\* sources loaded; `existing` are the sources with a result file on disk.
SolveCommand(debug, clobber, skip, number_to_solve, optimise_setting, existing, fails) ==
    /\ batch.pc = "start"
    /\ batch' = [batch EXCEPT
            !.pc = "next",
            !.args = [debug |-> debug, clobber |-> clobber, skip |-> skip,
                      number_to_solve |-> number_to_solve,
                      optimise |-> optimise_setting, existing |-> existing],
            !.fails = fails]
    /\ UNCHANGED outsideBatch

\* cli.py:254-307  the head of the loop over sources: skipped sources, the
\* break after number_to_solve sources, existing result files.
SolveNextSource ==
    /\ batch.pc = "next"
    /\ LET i == batch.i + 1
           a == batch.args
       IN IF i > Len(batch.fails)
          THEN batch' = [batch EXCEPT !.pc = "done"]
          ELSE IF a.skip > i - 1
          THEN batch' = [batch EXCEPT !.i = i,
                    !.log = Append(@, [event |-> "skipping", source |-> i])]
          ELSE IF ~a.number_to_solve.all /\ i > a.number_to_solve.count + a.skip
          THEN batch' = [batch EXCEPT !.i = i, !.pc = "done",
                    !.log = Append(@, [event |-> "exiting", source |-> i])]
          ELSE IF i \in a.existing /\ ~a.clobber
          THEN batch' = [batch EXCEPT !.i = i,
                    !.log = Append(@, [event |-> "skipping", source |-> i])]
          ELSE batch' = [batch EXCEPT !.i = i, !.pc = "initial_theta",
                    !.started = @ \cup {i}]
    /\ UNCHANGED outsideBatch

\* An exception that no handler of solve catches ends the command.
SolveRaises(line) ==
    [batch EXCEPT !.pc = "raised",
                  !.error = [name |-> "Exception", line |-> line]]

\* cli.py:310  initial_theta, initial_r_chi_sq = model.initial_theta(spectra)
SolveInitialTheta ==
    /\ batch.pc = "initial_theta"
    /\ batch' = IF batch.fails[batch.i] = "initial_theta"
                THEN SolveRaises(310)
                ELSE [batch EXCEPT !.pc = "optimise"]
    /\ UNCHANGED outsideBatch

\* cli.py:326-348  model.optimise(...) when the settings ask for it
SolveOptimise ==
    /\ batch.pc = "optimise"
    /\ batch' = IF batch.args.optimise /\ batch.fails[batch.i] = "optimise"
                THEN SolveRaises(327)
                ELSE [batch EXCEPT !.pc = "infer"]
    /\ UNCHANGED outsideBatch

\* cli.py:350-470  try: model.infer(...)  except: log, raise when debug
\* else: write the result file.
SolveInfer ==
    /\ batch.pc = "infer"
    /\ batch' =
        IF batch.fails[batch.i] = "infer"
        THEN LET logged == [batch EXCEPT !.log =
                    Append(@, [event |-> "failed", source |-> batch.i])]
             IN IF batch.args.debug
                THEN [logged EXCEPT !.pc = "raised",
                        !.error = [name |-> "Exception", line |-> 355]]
                ELSE [logged EXCEPT !.pc = "next"]
        ELSE [batch EXCEPT !.pc = "next", !.written = @ \cup {batch.i}]
    /\ UNCHANGED outsideBatch

SolveStart ==
    /\ batch.pc = "start"
    /\ \E n \in Sources, debug, clobber, optimise_setting \in BOOLEAN,
          skip \in {0, 1}, number_to_solve \in NumbersToSolve :
          \E existing \in SUBSET (1..n), fails \in [1..n -> FailureStages] :
             SolveCommand(debug, clobber, skip, number_to_solve,
                          optimise_setting, existing, fails)

NextSolve ==
    \/ SolveStart
    \/ SolveNextSource
    \/ SolveInitialTheta
    \/ SolveOptimise
    \/ SolveInfer

\* ----------------------------------------- the model grid, scope/models.py
\* Grid points have one or two dimensions; their coordinates and those of
\* the points asked about are whole numbers, which floats hold exactly.
Dimensions == {1, 2}
\* Values of the grid points: three on a line, two by two in the plane.
GridValues(d) == IF d = 1 THEN {0, 2, 4} ELSE {0, 2}
QueryValues == {-1, 0, 1, 2, 5}
FirstBeam == "blue"
OtherBeam == "red"
PointsOf(d) == [1..d -> GridValues(d)]
QueryPoints == UNION {[1..d -> QueryValues] : d \in Dimensions}
NeighbourCounts == 0..MaxNeighbours

LexLess(p, q) ==
    \E i \in 1..Len(p) : p[i] < q[i] /\ \A j \in 1..(i - 1) : p[j] = q[j]

\* models.py:41  glob lists the files of a folder in some order; the first
\* beam's files are taken in lexical order of their points.
RECURSIVE SortedPoints(_)
SortedPoints(S) ==
    IF S = {} THEN <<>>
    ELSE LET m == CHOOSE p \in S : \A q \in S \ {p} : LexLess(p, q)
         IN <<m>> \o SortedPoints(S \ {m})

\* Every order in which glob can list the files of another beam.
Orderings(points) ==
    {[i \in 1..Len(points) |-> points[f[i]]] :
        f \in Permutations(1..Len(points))}

\* models.py:61-62  the k-th matched file of a beam holds the flux of the
\* k-th point read for that beam.
FluxFile(beam, point) == [beam |-> beam, point |-> point]
MatchedFilenames(beam, points) ==
    [k \in 1..Len(points) |-> FluxFile(beam, points[k])]

\* models.py:146-151  check_grid_point: the (0-based) index of the first
\* grid point equal to `point`, else False, which indexes as 0.
CheckGridPoint(grid_points, point) ==
    LET index == {k \in 1..Len(grid_points) : grid_points[k] = point}
    IN IF index # {}
       THEN (CHOOSE k \in index : \A l \in index : k <= l) - 1
       ELSE 0

\* models.py:89-95  the files of a later beam, put in the order of
\* sort_indices.
Reorder(grid_points, points, filenames) ==
    LET sort_indices == [j \in 1..Len(points) |->
                            CheckGridPoint(grid_points, points[j])]
    IN [j \in 1..Len(points) |-> filenames[sort_indices[j] + 1]]

NoGrid == [pc |-> "start", points |-> <<>>, beams |-> {},
           grid_points |-> <<>>, flux_filenames |-> <<>>,
           call |-> [op |-> "none"], indices |-> {}, flux |-> <<>>,
           returned |-> FALSE,
           error |-> [name |-> "none", line |-> 0]]

\* models.py:25-97  Models.__init__, given the points read for each beam
ModelsInit(points) ==
    /\ grid.pc = "start"
    /\ LET beams == DOMAIN points
           first == points[FirstBeam]
           filenames == [b \in beams |-> MatchedFilenames(b, points[b])]
           constructed == [grid EXCEPT !.pc = "constructed",
                                       !.points = points, !.beams = beams,
                                       !.grid_points = first]
       IN grid' =
            IF Cardinality(beams) = 1
            THEN [constructed EXCEPT !.flux_filenames = filenames[FirstBeam]]
            ELSE IF \E b \in beams : Len(points[b]) # Len(first)
            THEN [constructed EXCEPT
                    !.pc = "raised",
                    !.flux_filenames = [b \in {FirstBeam} |-> filenames[b]],
                    !.error = [name |-> "ValueError", line |-> 84]]
            ELSE [constructed EXCEPT !.flux_filenames =
                    [b \in beams |->
                        IF b = FirstBeam THEN filenames[b]
                        ELSE Reorder(first, points[b], filenames[b])]]
    /\ UNCHANGED outsideGrid

\* The points read for the other beam: the same points in any order, one
\* point fewer, or one point that the first beam does not have.
OtherBeamPoints(first, d) ==
    Orderings(first)
    \cup {SubSeq(first, 1, Len(first) - 1)}
    \cup {[first EXCEPT ![1] = q] : q \in {r \in PointsOf(d) :
            /\ r \notin Range(first)
            /\ \A r2 \in PointsOf(d) \ Range(first) : r = r2 \/ LexLess(r, r2)}}

ModelsStart ==
    /\ grid.pc = "start"
    /\ \E d \in Dimensions :
         \E S \in SUBSET PointsOf(d) :
            /\ S # {}
            /\ Cardinality(S) <= MaxGridPoints
            /\ LET first == SortedPoints(S)
               IN \/ ModelsInit([b \in {FirstBeam} |-> first])
                  \/ \E other \in OtherBeamPoints(first, d) :
                        ModelsInit([b \in {FirstBeam, OtherBeam} |->
                            IF b = FirstBeam THEN first ELSE other])

\* grid_points.shape[1] and the values of column i.
GridDimension(grid_points) == Len(grid_points[1])
Column(grid_points, i) == {grid_points[k][i] : k \in 1..Len(grid_points)}
SetMin(S) == CHOOSE v \in S : \A w \in S : v <= w
SetMax(S) == CHOOSE v \in S : \A w \in S : v >= w

\* models.py:113  the point has one value per dimension of the grid
PointLengthIsGridLength(point, grid_points) ==
    Len(point) = Len(grid_points)
PointLengthAccepted(point, grid_points) ==
    Len(point) = GridDimension(grid_points)

\* models.py:127  difference[difference < 0][-n:][0] + point_value: the n-th
\* grid value below the point, the lowest one when there are fewer.
Below(values, point_value) == {v \in values : v - point_value < 0}
LimitMin(values, point_value, n) ==
    LET below == Below(values, point_value)
    IN IF Cardinality(below) <= n THEN SetMin(below)
       ELSE CHOOSE v \in below : Cardinality({w \in below : w > v}) = n - 1

\* models.py:128  difference[difference > 0][:n][-1] + point_value
Above(values, point_value) == {v \in values : v - point_value > 0}
LimitMax(values, point_value, n) ==
    LET above == Above(values, point_value)
    IN IF Cardinality(above) <= n THEN SetMax(above)
       ELSE CHOOSE v \in above : Cardinality({w \in above : w < v}) = n - 1

\* models.py:130  the (0-based) indices of the grid points whose value in
\* dimension i lies within the two limits.
TheseIndices(grid_points, i, point_value, n) ==
    LET values == Column(grid_points, i)
    IN {k - 1 : k \in {l \in 1..Len(grid_points) :
            /\ LimitMax(values, point_value, n) >= grid_points[l][i]
            /\ grid_points[l][i] >= LimitMin(values, point_value, n)}}

\* Dimensions in which indexing the empty array of line 127 or 128 raises.
NoneBelow(grid_points, point) ==
    {i \in 1..Len(point) : Below(Column(grid_points, i), point[i]) = {}}
NoneAbove(grid_points, point) ==
    {i \in 1..Len(point) : Above(Column(grid_points, i), point[i]) = {}}

\* models.py:100-133  get_nearest_neighbours(point, n): the exception it
\* raises, if any, and the index set it returns.
GetNearestNeighbours(grid_points, point, n) ==
    IF ~PointLengthAccepted(point, grid_points)
    THEN [error |-> [name |-> "ValueError", line |-> 114], indices |-> {}]
    ELSE IF 1 > n
    THEN [error |-> [name |-> "ValueError", line |-> 121], indices |-> {}]
    ELSE LET failing == NoneBelow(grid_points, point)
                            \cup NoneAbove(grid_points, point)
         IN IF failing # {}
            THEN LET i == SetMin(failing)
                 IN [error |-> [name |-> "IndexError",
                                line |-> IF i \in NoneBelow(grid_points, point)
                                         THEN 127 ELSE 128],
                     indices |-> {}]
            ELSE [error |-> [name |-> "none", line |-> 0],
                  indices |-> {k \in 0..(Len(grid_points) - 1) :
                        \A i \in 1..Len(point) :
                            k \in TheseIndices(grid_points, i, point[i], n)}]

\* A call of Models.get_nearest_neighbours on the constructed object.
NearestNeighboursCall(point, n) ==
    /\ grid.pc = "constructed"
    /\ grid.call.op = "none"
    /\ LET r == GetNearestNeighbours(grid.grid_points, point, n)
       IN grid' = [grid EXCEPT
            !.call = [op |-> "get_nearest_neighbours", point |-> point,
                      n |-> n],
            !.error = r.error,
            !.indices = r.indices,
            !.returned = (r.error.name = "none")]
    /\ UNCHANGED outsideGrid

\* models.py:154-205  interpolate_flux(point, beams, kind): the neighbours
\* (n = 1), then the beams, then griddata of a scipy that the module never
\* imports.
InterpolateFlux(point, beams, kind) ==
    /\ grid.pc = "constructed"
    /\ grid.call.op = "none"
    /\ LET r == GetNearestNeighbours(grid.grid_points, point, 1)
           is_dict == Cardinality(grid.beams) > 1
           raised ==
             IF r.error.name # "none" THEN r.error
             ELSE IF beams = "all" /\ ~is_dict
             THEN [name |-> "AttributeError", line |-> 177]
             ELSE IF ~is_dict
             THEN [name |-> "AttributeError", line |-> 183]
             ELSE IF beams # "all" /\ beams \notin grid.beams
             THEN [name |-> "ValueError", line |-> 184]
             ELSE [name |-> "NameError", line |-> 199]
       IN grid' = [grid EXCEPT
            !.call = [op |-> "interpolate_flux", point |-> point,
                      beams |-> beams, kind |-> kind],
            !.error = raised,
            !.indices = r.indices,
            !.returned = FALSE]
    /\ UNCHANGED outsideGrid

\* The call has returned or raised; the object is as it was constructed.
GridCallEnds ==
    /\ grid.pc = "constructed"
    /\ grid.call.op # "none"
    /\ grid' = [grid EXCEPT !.call = NoGrid.call, !.indices = NoGrid.indices,
                            !.returned = NoGrid.returned,
                            !.error = NoGrid.error]
    /\ UNCHANGED outsideGrid

NextGrid ==
    \/ ModelsStart
    \/ GridCallEnds
    \/ \E point \in QueryPoints, n \in NeighbourCounts :
            NearestNeighboursCall(point, n)
    \/ \E point \in QueryPoints, beams \in {"all", OtherBeam, "green"},
          kind \in {"linear", "nearest"} :
            InterpolateFlux(point, beams, kind)

\* --------------------- convolution functions and Model.__call__ (model.py)
\* dict.get(key, default)
Get(d, key, default) == IF key \in DOMAIN d THEN d[key] ELSE default

\* "z_{}".format(channel), "resolution_{}".format(channel)
ChannelName(prefix, channel) == prefix \o "_" \o channel
\* "continuum_{0}_{1}".format(channel, j)
Digits == <<"0", "1", "2", "3">>
ContinuumName(channel, j) ==
    "continuum_" \o channel \o "_" \o Digits[j + 1]

\* specutils.sample.resample(wavelengths * (1 + z), disp): the matrix that
\* resamples the model wavelengths at redshift z onto the spectrum `onto`.
Resample(z, onto) == [kind |-> "resample", onto |-> onto, shift |-> z]
\* specutils.sample._BoxFactory(disp, wavelengths) and _BlurryBoxFactory
BoxFactory(onto) == [kind |-> "box", onto |-> onto]
BlurryBoxFactory(onto) == [kind |-> "blurry", onto |-> onto]
\* gaussian_filter1d(f, R_scale / R) for R > 0, no blur otherwise
Blur(R_scale, R) ==
    IF R > 0 THEN [R_scale |-> R_scale, R |-> R] ELSE [R_scale |-> 0, R |-> 0]
NoBlur == Blur(0, 0)
\* The flux a convolution function returns: on which spectrum's pixels, at
\* which redshift of the model wavelengths, after which blur.
Binned(onto, shift, blur) == [onto |-> onto, shift |-> shift, blur |-> blur]

\* model.py:720-722  is the channel's redshift / resolution free?
RedshiftFree(channel, free_parameters) ==
    "z" \in free_parameters \/ ChannelName("z", channel) \in free_parameters
ResolutionFree(channel, free_parameters) ==
    ChannelName("resolution", channel) \in free_parameters

\* model.py:724-817  the function chosen for the i-th spectrum
Strategy(channel, free_parameters, fast_binning) ==
    IF channel = "None" THEN "None"
    ELSE LET redshift == RedshiftFree(channel, free_parameters)
             resolution == ResolutionFree(channel, free_parameters)
         IN IF ~redshift /\ ~resolution
            THEN IF fast_binning THEN "static_interp" ELSE "static_matrix"
            ELSE IF fast_binning
            THEN IF resolution THEN "blur_interp" ELSE "interp"
            ELSE IF redshift /\ ~resolution THEN "box" ELSE "blurry_box"

\* model.py:743-817  the value the i-th pass of the loop gives the local
\* name `matrix`
MatrixOf(i, channel, strategy, fixed_parameters) ==
    IF strategy = "static_matrix"
    THEN Resample(Get(fixed_parameters, ChannelName("z", channel),
                      Get(fixed_parameters, "z", 0)), i)
    ELSE IF strategy = "box" THEN BoxFactory(i)
    ELSE BlurryBoxFactory(i)

\* The largest element of a set of indices, 0 for the empty set.
LastOf(S) == IF S = {} THEN 0 ELSE SetMax(S)

\* model.py:652-824  the list of functions and the local names they close
\* over: every function made in one call reads `matrix` and `R_scale` when
\* it is called, and so sees what the last pass that set them left.
ConvolutionFunctions(matched_channels, free_parameters, fixed_parameters, fast_binning) ==
    LET n == Len(matched_channels)
        functions == [i \in 1..n |->
            Strategy(matched_channels[i], free_parameters, fast_binning)]
        m == LastOf({i \in 1..n :
                functions[i] \in {"static_matrix", "box", "blurry_box"}})
        r == LastOf({i \in 1..n : functions[i] = "blur_interp"})
    IN [functions |-> functions,
        matrix |-> IF m = 0 THEN [kind |-> "unbound"]
                   ELSE MatrixOf(m, matched_channels[m], functions[m],
                                 fixed_parameters),
        R_scale |-> r]

\* Calling the i-th function of an entry as convolution_function(w, f, z, R),
\* w being the pixels of spectrum i: the binned flux, or the exception.
Returns(binned) == [raised |-> "none", binned |-> binned]
Raises(name) == [raised |-> name, binned |-> Binned(0, 0, NoBlur)]
CallConvolutionFunction(entry, i, z, R) ==
    LET f == entry.functions[i]
        matrix == entry.matrix
    IN CASE f = "static_interp" -> Returns(Binned(i, 0, NoBlur))
         [] f = "interp" -> Returns(Binned(i, z, NoBlur))
         [] f = "blur_interp" -> Returns(Binned(i, z, Blur(entry.R_scale, R)))
         [] f = "static_matrix" ->
                IF matrix.kind = "resample"
                THEN Returns(Binned(matrix.onto, matrix.shift, NoBlur))
                ELSE Raises("TypeError")
         [] f = "box" ->
                IF matrix.kind = "box"
                THEN Returns(Binned(matrix.onto, z, NoBlur))
                ELSE Raises("TypeError")
         [] f = "blurry_box" ->
                IF matrix.kind = "blurry"
                THEN Returns(Binned(matrix.onto, z, Blur(matrix.onto, R)))
                ELSE Raises("TypeError")
         [] OTHER -> Raises("TypeError")

\* Model channels a spectrum is matched to ("None": no model channel).
ChannelLists ==
    {<<"blue">>, <<"blue", "red">>, <<"red", "blue">>, <<"None", "blue">>}
\* Parameter names of a model with the channels blue and red.
RedshiftNames == {"z", "z_blue"}
ResolutionNames == {"resolution", "resolution_blue", "resolution_red"}
ContinuumNames == {ContinuumName("blue", j) : j \in 0..MaxDegree}
\* The values a Theta can give a parameter.
ValuesOf(name) ==
    CASE name = "z" -> {1}
      [] name = "z_blue" -> {2}
      [] name = "resolution" -> {0, 5}
      [] name = "resolution_blue" -> {6}
      [] name = "resolution_red" -> {7}
      [] OTHER -> {-2, 2}
\* The observed wavelengths of every spectrum, and the binned flux a
\* convolution function gives at each of them.
Disp == <<1, 2>>
BinnedFluxes == {1, 3}

NoEvaluation == [pc |-> "start", matched_channels |-> <<>>,
                 free_parameters |-> {}, fixed_parameters |-> <<>>,
                 fast_binning |-> TRUE, theta |-> <<>>, flux |-> 0,
                 no_precomputed_binning |-> FALSE,
                 results |-> <<>>, error |-> "none"]

\* model.py:376, 896  the stage creates its convolution functions from the
\* parameters it solves for and the parameters it keeps fixed.
StageSetUp(matched_channels, free_parameters, fixed_parameters, fast_binning) ==
    /\ evaluation.pc = "start"
    /\ binning_matrices' = CreateConvolutionFunctions(binning_matrices,
            ConvolutionFunctions(matched_channels, free_parameters,
                                 fixed_parameters, fast_binning))
    /\ evaluation' = [evaluation EXCEPT
            !.pc = "ready",
            !.matched_channels = matched_channels,
            !.free_parameters = free_parameters,
            !.fixed_parameters = fixed_parameters,
            !.fast_binning = fast_binning]
    /\ UNCHANGED outsideEvaluation

StageStart ==
    /\ evaluation.pc = "start"
    /\ \E matched_channels \in ChannelLists, fast_binning \in BOOLEAN,
          free_parameters \in
            SUBSET (RedshiftNames \cup ResolutionNames \cup ContinuumNames) :
          \E fixed_names \in SUBSET (RedshiftNames \ free_parameters) :
             StageSetUp(matched_channels, free_parameters,
                        [name \in fixed_names |-> SetMin(ValuesOf(name))],
                        fast_binning)

\* model.py:1015-1018  the coefficients from index j on, up to the first
\* index that Theta does not have.
RECURSIVE Coefficients(_, _, _)
Coefficients(theta, channel, j) ==
    IF ContinuumName(channel, j) \in DOMAIN theta
    THEN <<theta[ContinuumName(channel, j)]>>
            \o Coefficients(theta, channel, j + 1)
    ELSE <<>>

\* np.polyval(coeff[::-1], w): coeff[k] is the coefficient of degree k.
RECURSIVE Power(_, _)
Power(w, k) == IF k = 0 THEN 1 ELSE w * Power(w, k - 1)
RECURSIVE Polyval(_, _)
Polyval(coeff, w) ==
    IF coeff = <<>> THEN 0
    ELSE coeff[Len(coeff)] * Power(w, Len(coeff) - 1)
            + Polyval(SubSeq(coeff, 1, Len(coeff) - 1), w)
Abs(x) == IF x < 0 THEN -x ELSE x

\* model.py:1020-1021  the continuum at every pixel
ContinuumSigned(coeff, disp) ==
    [px \in 1..Len(disp) |->
        IF coeff # <<>> THEN Polyval(coeff, disp[px]) ELSE 1]
Continuum(coeff, disp) ==
    [px \in 1..Len(disp) |->
        IF coeff # <<>> THEN Abs(Polyval(coeff, disp[px])) ELSE 1]

\* model.py:978-1022  one matched channel of Model.__call__: the redshift
\* and resolution, the binned flux, the continuum, the model flux.
ChannelRedshift(theta, channel) ==
    Get(theta, "z", Get(theta, ChannelName("z", channel), 0))
ChannelResolution(theta, channel) ==
    Get(theta, "resolution",
        Get(theta, ChannelName("resolution", channel), 0))

ChannelBinned(entry, i, z, resolution, no_precomputed_binning) ==
    IF no_precomputed_binning
    THEN Returns(Binned(i, z, Blur(i, resolution)))
    ELSE CallConvolutionFunction(entry, i, z, resolution)

ChannelResult(theta, entry, i, channel, flux, no_precomputed_binning) ==
    LET z == ChannelRedshift(theta, channel)
        resolution == ChannelResolution(theta, channel)
        called == ChannelBinned(entry, i, z, resolution,
                                no_precomputed_binning)
        coeff == Coefficients(theta, channel, 0)
        continuum == Continuum(coeff, Disp)
    IN [channel |-> channel, z |-> z, resolution |-> resolution,
        raised |-> called.raised, binned |-> called.binned,
        coeff |-> coeff, continuum |-> continuum,
        binned_flux |-> [px \in 1..Len(Disp) |-> flux],
        channel_fluxes |-> [px \in 1..Len(Disp) |-> flux * continuum[px]]]

\* model.py:940-1052  Model.__call__(theta, data): every spectrum in turn;
\* a spectrum without a model channel gets NaNs and the continuum 1.
ModelCall(theta, flux, no_precomputed_binning) ==
    /\ evaluation.pc = "ready"
    /\ LET entry == ActiveConvolutionFunctions(binning_matrices)
           channels == evaluation.matched_channels
           results == [i \in 1..Len(channels) |->
                IF channels[i] = "None"
                THEN [channel |-> "None"]
                ELSE ChannelResult(theta, entry, i, channels[i], flux,
                                   no_precomputed_binning)]
           failing == {i \in 1..Len(channels) :
                /\ channels[i] # "None"
                /\ results[i].raised # "none"}
       IN evaluation' = [evaluation EXCEPT
            !.pc = "called",
            !.theta = theta,
            !.flux = flux,
            !.no_precomputed_binning = no_precomputed_binning,
            !.results = IF failing = {} THEN results
                        ELSE SubSeq(results, 1, SetMin(failing) - 1),
            !.error = IF failing = {} THEN "none"
                      ELSE results[SetMin(failing)].raised]
    /\ UNCHANGED <<binning_matrices, outsideEvaluation>>

\* The Thetas a stage evaluates: a value for each parameter it solves for,
\* and the fixed value of each parameter it keeps fixed.
RECURSIVE ThetasOver(_, _)
ThetasOver(names, fixed) ==
    IF names = {} THEN {fixed}
    ELSE LET name == CHOOSE n \in names : TRUE
         IN {[k \in DOMAIN theta \cup {name} |->
                    IF k = name THEN v ELSE theta[k]] :
                theta \in ThetasOver(names \ {name}, fixed),
                v \in ValuesOf(name)}
StageThetas ==
    ThetasOver(evaluation.free_parameters, evaluation.fixed_parameters)

ModelCallStart ==
    /\ evaluation.pc = "ready"
    /\ \E theta \in StageThetas, flux \in BinnedFluxes,
          no_precomputed_binning \in BOOLEAN :
            ModelCall(theta, flux, no_precomputed_binning)

\* model.py:564, 930, 935  the stage removes its convolution functions.
StageEnds ==
    /\ evaluation.pc = "called"
    /\ binning_matrices' = DestroyConvolutionFunctions(binning_matrices)
    /\ evaluation' = NoEvaluation
    /\ UNCHANGED outsideEvaluation

NextEvaluation ==
    \/ StageStart
    \/ ModelCallStart
    \/ StageEnds

\* ------------------ the dicts of Model.optimise and Model.infer (model.py)
\* A dict is an object of the heap: a name of the program refers to it, and
\* two names can refer to the same object.  A value is <<v>>, None is <<>>.
NoneValue == <<>>
Value(v) == <<v>>
\* The non-ignored model parameters, and a name that is no parameter.
StageParameters == {"teff", "logg", "z"}
FixedNames == {"logg", "z", "vrad"}
\* The dicts a caller can pass as initial_theta / initial_proposal.
CallerThetas == [StageParameters -> {Value(1), Value(2)}]
\* The dicts a caller can pass as `fixed`: a value or None for each name.
CallerFixed ==
    UNION {[names -> {NoneValue, Value(3)}] : names \in SUBSET FixedNames}
\* The values the minimiser and the sampler come back with.
SolvedValues == {Value(5), Value(6)}

\* The bounds a caller gives (`bounds`) and those the approximator returns
\* (subset_bounds): a (lower, upper) pair for some of the names.
InputBounds ==
    UNION {[names -> {<<Value(0), Value(9)>>}] :
                names \in SUBSET {"teff", "z", "vrad"}}
SubsetBounds ==
    UNION {[names -> {<<Value(1), Value(8)>>}] :
                names \in SUBSET {"teff", "logg"}}

NoMappings == [pc |-> "start", heap |-> <<>>, before |-> <<>>,
               stage |-> "none", fixed |-> "none", parameters |-> {},
               input_bounds |-> <<>>, subset_bounds |-> <<>>,
               bounds |-> <<>>, returned |-> "none",
               objective |-> [called |-> FALSE, theta |-> <<>>,
                              p_ |-> <<>>, t_ |-> <<>>]]

\* model.py:885-888  nbs = (None, None);
\* [input_bounds.get(p, subset_bounds.get(p, nbs)) for p in parameters]
BoundsSubsetFirst(parameters, input_bounds, subset_bounds) ==
    [p \in parameters |->
        Get(subset_bounds, p, Get(input_bounds, p, <<NoneValue, NoneValue>>))]
Bounds(parameters, input_bounds, subset_bounds) ==
    [p \in parameters |->
        Get(input_bounds, p, Get(subset_bounds, p, <<NoneValue, NoneValue>>))]

\* A new dict object under the name id.
NewMapping(heap, id, contents) ==
    [o \in DOMAIN heap \cup {id} |-> IF o = id THEN contents ELSE heap[o]]

\* target.update(source)
UpdateMappingReversed(heap, target, source) ==
    [heap EXCEPT ![source] =
        [k \in DOMAIN heap[source] \cup DOMAIN heap[target] |->
            IF k \in DOMAIN heap[target] THEN heap[target][k]
            ELSE heap[source][k]]]
UpdateMapping(heap, target, source) ==
    [heap EXCEPT ![target] =
        [k \in DOMAIN heap[target] \cup DOMAIN heap[source] |->
            IF k \in DOMAIN heap[source] THEN heap[source][k]
            ELSE heap[target][k]]]

\* The objects of the caller: initial_theta and, when passed, fixed.
CallerHeap(initial_theta, fixed_passed, fixed) ==
    [o \in {"initial_theta"} \cup (IF fixed_passed THEN {"fixed"} ELSE {}) |->
        IF o = "initial_theta" THEN initial_theta ELSE fixed]

\* model.py:833-897  Model.optimise up to the minimiser: op_kwargs is a copy
\* of the configuration updated with the keywords; `fixed` is popped from it
\* (a new empty dict when the caller passed none) and, when not empty,
\* replaced by a new dict of the fixed parameters.
OptimiseBegins(initial_theta, fixed_passed, fixed, input_bounds, subset_bounds) ==
    /\ mappings.pc = "start"
    /\ LET caller == CallerHeap(initial_theta, fixed_passed, fixed)
           popped == IF fixed_passed THEN "fixed" ELSE "fixed_default"
           heap1 == IF fixed_passed THEN caller
                    ELSE NewMapping(caller, "fixed_default", <<>>)
           keys == DOMAIN heap1[popped] \cap StageParameters
           replaced == DOMAIN heap1[popped] # {}
           heap2 == IF replaced
                    THEN NewMapping(heap1, "fixed_dict",
                            [k \in keys |->
                                IF heap1[popped][k] = NoneValue
                                THEN Get(initial_theta, k, NoneValue)
                                ELSE heap1[popped][k]])
                    ELSE heap1
           local == IF replaced THEN "fixed_dict" ELSE popped
       IN mappings' = [mappings EXCEPT
            !.pc = "minimise", !.stage = "optimise",
            !.heap = heap2, !.before = caller, !.fixed = local,
            !.parameters = StageParameters \ DOMAIN heap2[local],
            !.input_bounds = input_bounds, !.subset_bounds = subset_bounds,
            !.bounds = Bounds(StageParameters \ DOMAIN heap2[local],
                              input_bounds, subset_bounds)]
    /\ UNCHANGED outsideMappings

\* self.parameters in the order of the model, and the list of those of a set.
ParameterOrder == <<"teff", "logg", "z">>
ParameterList(names) == SelectSeq(ParameterOrder, LAMBDA p : p \in names)

\* The orders in which a dict can yield its keys.
ItemOrders(keys) ==
    {order \in [1..Cardinality(keys) -> keys] : Range(order) = keys}

\* model.py:906-910  the loop of nlp over fixed.iteritems(), given as the
\* list of (parameter, value) pairs in the order the dict yields them
RECURSIVE NlpLoop(_, _, _, _)
NlpLoop(theta, p_, t_, items) ==
    IF items = <<>> THEN [p_ |-> p_, t_ |-> t_]
    ELSE NlpLoop(theta, Append(p_, Head(items)[1]),
                 Append(theta, Head(items)[2]), Tail(items))

\* model.py:904-913  the minimiser calls nlp(theta); the name list and the
\* value vector of the last call are kept.
Nlp(value) ==
    /\ mappings.pc = "minimise"
    /\ mappings.stage = "optimise"
    /\ LET parameters == ParameterList(mappings.parameters)
           theta == [j \in 1..Len(parameters) |-> value]
           fixed == mappings.heap[mappings.fixed]
       IN \E order \in ItemOrders(DOMAIN fixed) :
            LET items == [j \in 1..Len(order) |->
                            <<order[j], fixed[order[j]]>>]
                passed == NlpLoop(theta, parameters, theta, items)
            IN mappings' = [mappings EXCEPT !.objective =
                    [called |-> TRUE, theta |-> theta,
                     p_ |-> passed.p_, t_ |-> passed.t_]]
    /\ UNCHANGED outsideMappings

\* model.py:913-937  x_opt_theta = OrderedDict(zip(parameters, x_opt));
\* x_opt_theta.update(fixed); return x_opt_theta
OptimiseEnds(x_opt) ==
    /\ mappings.pc = "minimise"
    /\ LET heap1 == NewMapping(mappings.heap, "x_opt_theta",
                        [p \in mappings.parameters |-> x_opt])
       IN mappings' = [mappings EXCEPT
            !.pc = "returned",
            !.heap = UpdateMapping(heap1, "x_opt_theta", mappings.fixed),
            !.returned = "x_opt_theta"]
    /\ UNCHANGED outsideMappings

\* model.py:343-373  Model.infer reads the initial proposal (a dict) and
\* binds the name to the walkers' positions made from it.
InferBegins(initial_proposal) ==
    /\ mappings.pc = "start"
    /\ LET caller == CallerHeap(initial_proposal, FALSE, <<>>)
       IN mappings' = [mappings EXCEPT
            !.pc = "sample", !.stage = "infer",
            !.heap = caller, !.before = caller,
            !.parameters = StageParameters]
    /\ UNCHANGED outsideMappings

\* model.py:552-578  theta = OrderedDict(); theta[label] = (c, u-c, l-c);
\* return theta
InferEnds(percentiles) ==
    /\ mappings.pc = "sample"
    /\ mappings' = [mappings EXCEPT
            !.pc = "returned",
            !.heap = NewMapping(mappings.heap, "theta",
                        [p \in mappings.parameters |-> percentiles]),
            !.returned = "theta"]
    /\ UNCHANGED outsideMappings

\* An exception ends the stage before it returns (model.py:317, 638, 918).
StageRaises ==
    /\ mappings.pc \in {"minimise", "sample"}
    /\ mappings' = [mappings EXCEPT !.pc = "raised"]
    /\ UNCHANGED outsideMappings

NextMappings ==
    \/ /\ mappings.pc = "start"
       /\ \E initial_theta \in CallerThetas, fixed_passed \in BOOLEAN,
             fixed \in CallerFixed, input_bounds \in InputBounds,
             subset_bounds \in SubsetBounds :
                OptimiseBegins(initial_theta, fixed_passed, fixed,
                               input_bounds, subset_bounds)
    \/ \E value \in SolvedValues : Nlp(value)
    \/ \E x_opt \in SolvedValues : OptimiseEnds(x_opt)
    \/ \E initial_proposal \in CallerThetas : InferBegins(initial_proposal)
    \/ \E percentiles \in SolvedValues : InferEnds(percentiles)
    \/ StageRaises

\* ------------------- the segments of a converged run (model.py:486-527)
\* sampler.chain and sampler.lnprobability have one row per walker and one
\* column per step; the entry of walker w at step s is <<w, s>>, which stands
\* for the parameter vector in the chain and for ln(P) in lnprobability.
SamplerArray(walkers, steps) ==
    [w \in 1..walkers |-> [s \in 1..steps |-> <<w, s>>]]

\* a[:, :burn] and a[:, burn:] : the steps of every walker
StepsTo(a, burn) == [w \in 1..Len(a) |-> SliceTo(a[w], burn)]
StepsFrom(a, burn) == [w \in 1..Len(a) |-> SliceFrom(a[w], burn)]

\* np.hstack([x, y]) of two 2-D arrays: the rows are joined one by one, and
\* the arrays must have the same number of rows.
HStackArrays(x, y) ==
    IF Len(x) # Len(y)
    THEN [error |-> "ValueError", value |-> <<>>]
    ELSE [error |-> "none", value |-> [w \in 1..Len(x) |-> x[w] \o y[w]]]

NoSegments == [pc |-> "start", chain |-> <<>>, lnprobability |-> <<>>,
               burn |-> 0, burn_chains |-> <<>>, production_chains |-> <<>>,
               burn_ln_probabilities |-> <<>>,
               production_ln_probabilities |-> <<>>,
               chains |-> <<>>, stacked_lnprobability |-> <<>>,
               error |-> NoError]

\* model.py:486-490  the sampler's arrays are separated at convergence
SeparateSamples(walkers, steps, burn) ==
    /\ segments.pc = "start"
    /\ LET chain == SamplerArray(walkers, steps)
           lnprobability == SamplerArray(walkers, steps)
       IN segments' = [segments EXCEPT
            !.pc = "separated", !.chain = chain,
            !.lnprobability = lnprobability, !.burn = burn,
            !.burn_chains = StepsTo(chain, burn),
            !.burn_ln_probabilities = SliceTo(lnprobability, burn),
            !.production_chains = StepsFrom(chain, burn),
            !.production_ln_probabilities = SliceFrom(lnprobability, burn)]
    /\ UNCHANGED outsideSegments

\* model.py:525-527  the segments are stacked
StackSegments ==
    /\ segments.pc = "separated"
    /\ LET chains == HStackArrays(segments.burn_chains,
                                  segments.production_chains)
           lnprobability == HStackArrays(segments.burn_ln_probabilities,
                                segments.production_ln_probabilities)
       IN segments' =
            IF lnprobability.error # "none"
            THEN [segments EXCEPT
                    !.pc = "raised", !.chains = chains.value,
                    !.error = [name |-> lnprobability.error, line |-> 526]]
            ELSE [segments EXCEPT
                    !.pc = "stacked", !.chains = chains.value,
                    !.stacked_lnprobability = lnprobability.value]
    /\ UNCHANGED outsideSegments

\* A run converges with at least one step of burn-in and one of production
\* (model.py:455-458: burn >= 1 and 1 <= sample).
NextSegments ==
    \/ \E walkers \in {2, 4, 6}, steps \in 2..MaxConvergedSteps :
        \E burn \in 1..(steps - 1) : SeparateSamples(walkers, steps, burn)
    \/ StackSegments

\* ------------------------------------------ Model.estimate (model.py:24-239)
\* The channels of the model and the dimensions of its grid.
ModelChannels == {"blue", "red"}
GridNames == {"teff", "logg"}
\* Parameters a model can have besides its grid dimensions and its
\* continuum coefficients.
OtherParameters ==
    {"z", "z_blue", "z_red", "resolution_blue", "ln_f_red", "Po"}
\* configuration["model"]["continuum"]: the degree of the continuum of some
\* channels; the key is absent when no channel has one.
ContinuumDegrees ==
    UNION {[channels -> 0..MaxDegree] : channels \in SUBSET ModelChannels}
\* The parameters of a model with this configuration.
ModelParameters(others, continuum) ==
    GridNames \cup others
        \cup UNION {{ContinuumName(c, j) : j \in 0..continuum[c]} :
                        c \in DOMAIN continuum}

\* The parameters of one channel, and those of channels without data
\* (ignore_parameters of _match_channels_to_data).
ChannelParameters(c) ==
    {ChannelName("z", c), ChannelName("resolution", c), ChannelName("ln_f", c)}
        \cup {ContinuumName(c, j) : j \in 0..MaxDegree}
IgnoreParameters(parameters, matched) ==
    {p \in parameters : \E c \in ModelChannels \ matched :
                            p \in ChannelParameters(c)}

NoEstimation == [pc |-> "start", parameters |-> {}, ignore_parameters |-> {},
                 matched_channels |-> <<>>, ccf_channel |-> "None",
                 theta |-> {}, error |-> NoError]

\* model.py:93-239  the keys of the theta that estimate builds, or the
\* exception it raises
Estimate(parameters, continuum, matched_channels, ccf_channel) ==
    LET matched == Range(matched_channels) \ {"None"}
        ignore_parameters == IgnoreParameters(parameters, matched)
        any_continuum_parameters ==
            \E p \in parameters \ ignore_parameters :
                \E c \in ModelChannels : \E j \in 0..MaxDegree :
                    p = ContinuumName(c, j)
        CrossCorrelated(c) ==
            \/ ChannelName("z", c) \in parameters
            \/ /\ any_continuum_parameters \/ "z" \in parameters
               /\ c = ccf_channel
        NoDegree(c) == DOMAIN continuum # {} /\ c \notin DOMAIN continuum
        redshifts ==
            {ChannelName("z", c) : c \in {d \in matched :
                CrossCorrelated(d) /\ ChannelName("z", d) \in parameters}}
            \cup (IF /\ CrossCorrelated(ccf_channel)
                     /\ ChannelName("z", ccf_channel) \notin parameters
                     /\ "z" \in parameters
                  THEN {"z"} ELSE {})
        astrophysical ==
            IF CrossCorrelated(ccf_channel) THEN GridNames ELSE {}
        coefficients ==
            IF any_continuum_parameters
            THEN UNION {{ContinuumName(c, j) : j \in 0..continuum[c]} :
                            c \in matched \cap DOMAIN continuum}
            ELSE {}
        found == redshifts \cup astrophysical \cup coefficients
        remaining_parameters == (parameters \ ignore_parameters) \ found
        assumed ==
            {p \in remaining_parameters :
                \/ p = "resolution" \/ p = "ln_f"
                \/ \E c \in ModelChannels :
                    p \in {ChannelName("resolution", c), ChannelName("ln_f", c)}}
            \cup (IF remaining_parameters \cap {"Po", "Vo"} # {}
                  THEN {"Po", "Vo"} ELSE {})
    IN IF \E c \in matched : CrossCorrelated(c) /\ NoDegree(c)
       THEN [error |-> [name |-> "KeyError", line |-> 106], theta |-> {}]
       ELSE IF any_continuum_parameters /\ \E c \in matched : NoDegree(c)
       THEN [error |-> [name |-> "KeyError", line |-> 159], theta |-> {}]
       ELSE [error |-> NoError, theta |-> found \cup assumed]

\* model.py:24-239  one call of estimate on data of the matched channels
EstimateCall(others, continuum, matched_channels, ccf_channel) ==
    /\ estimation.pc = "start"
    /\ ccf_channel \in Range(matched_channels) \ {"None"}
    /\ LET parameters == ModelParameters(others, continuum)
           result == Estimate(parameters, continuum, matched_channels,
                              ccf_channel)
       IN estimation' = [estimation EXCEPT
            !.pc = IF result.error = NoError THEN "returned" ELSE "raised",
            !.parameters = parameters,
            !.ignore_parameters =
                IgnoreParameters(parameters,
                                 Range(matched_channels) \ {"None"}),
            !.matched_channels = matched_channels,
            !.ccf_channel = ccf_channel,
            !.theta = result.theta, !.error = result.error]
    /\ UNCHANGED outsideEstimation

\* model.py:858-860  optimise reads initial_theta[p] of every grid dimension
\* of the estimate it was given
EstimateRead ==
    /\ estimation.pc = "returned"
    /\ estimation' = [estimation EXCEPT
            !.pc = IF GridNames \subseteq estimation.theta
                   THEN "read" ELSE "raised",
            !.error = IF GridNames \subseteq estimation.theta THEN NoError
                      ELSE [name |-> "KeyError", line |-> 859]]
    /\ UNCHANGED outsideEstimation

NextEstimation ==
    \/ /\ estimation.pc = "start"
       /\ \E others \in SUBSET OtherParameters, continuum \in ContinuumDegrees,
             matched_channels \in ChannelLists, ccf_channel \in ModelChannels :
                EstimateCall(others, continuum, matched_channels, ccf_channel)
    \/ EstimateRead

Init ==
    /\ binning_matrices = <<>>
    /\ curses_mode = "none"
    /\ pc = "idle"
    /\ error = NoError
    /\ kwd = NoKwd
    /\ sampler = NoSampler
    /\ smp = NoSample
    /\ loc = NoLocals
    /\ hist = NoHistory
    /\ runs = [t \in Threads |-> NoRun]
    /\ cli = NoCommand
    /\ batch = NoBatch
    /\ grid = NoGrid
    /\ evaluation = NoEvaluation
    /\ mappings = NoMappings
    /\ segments = NoSegments
    /\ estimation = NoEstimation

Next ==
    \/ InferStart
    \/ \E af \in MeanAcceptanceFractions : SampleStep(af)
    \/ \E f \in BOOLEAN : SampleReturn(f)
    \/ InferAfterBurn
    \/ InferAfterProduction
    \/ InferAfterInitial
    \/ InferCheck
    \/ InferAfterExtra
    \/ \E f \in BOOLEAN : OptimiseCall(f)
    \/ \E ok \in BOOLEAN : OptimiseMinimise(ok)
    \/ OptimiseReturn
    \/ CallEnds

Spec == Init /\ [][Next]_vars

\* Solving runs of several threads, interleaved in any order.
SpecOverlap == Init /\ [][NextOverlap]_vars

\* One run of the command `infer`.
SpecCli == Init /\ [][NextCli]_vars

\* The batch command `solve` over its sources.
SpecSolve == Init /\ [][NextSolve]_vars

\* A Models object: its construction and the calls made on it.
SpecGrid == Init /\ [][NextGrid]_vars

\* A solving stage: its convolution functions and a model evaluation.
SpecEvaluation == Init /\ [][NextEvaluation]_vars

\* The calls under the scheduling of one Python thread: a call that can take
\* a step takes it.
SpecFair == Init /\ [][Next]_vars /\ WF_vars(Next)

\* The dicts of one stage, Model.optimise or Model.infer.
SpecMappings == Init /\ [][NextMappings]_vars

\* A call of Model.estimate and the use optimise makes of its result.
SpecEstimation == Init /\ [][NextEstimation]_vars

\* The split of the arrays of a run that converged.
SpecSegments == Init /\ [][NextSegments]_vars

\* ================================================================== claims
InferRuns == kwd.func = "infer"
Ended == pc \in {"returned", "raised"}
AutoRuns == InferRuns /\ kwd.auto_convergence
FixedRuns == InferRuns /\ ~kwd.auto_convergence

\* C1: in auto mode, once a convergence check has passed -- after K failed
\* checks and K extra batches -- infer has made exactly K extra _sample calls
\* (K + 1 calls and K + 1 checks in all), holds converged = True and does not
\* end with an exception.
C1_ConvergedAfterKBatches ==
    (AutoRuns /\ hist.passed >= 1) =>
        /\ loc.converged = "True"
        /\ hist.sample_calls = hist.checks
        /\ pc # "raised"

\* C2: in auto mode, when the loop has given up (not converged, total steps
\* at maximum_sample or beyond), infer does not raise: it returns, with the
\* chain of every step taken so far.
C2_ExhaustedReturnsPosterior ==
    (AutoRuns /\ Ended /\ loc.converged = "False"
        /\ loc.total_steps >= kwd.maximum_sample) =>
        /\ pc = "returned"
        /\ loc.chains = sampler.chain

\* C3: at every convergence check burn = ceil(tau_exp) * n_tau_exp_as_burn_in
\* and remaining = steps in the chain - burn; with remaining >= 1 the run is
\* marked converged exactly when walkers * remaining / (2 * tau_int[p]) is
\* strictly greater than the minimum for every parameter p; with remaining < 1
\* it is not marked converged.
C3_ConvergenceCheck ==
    (AutoRuns /\ hist.checks >= 1) =>
        LET n == kwd.n_tau_exp_as_burn_in
            c == loc.burn \div n
        IN /\ loc.burn = c * n
           /\ 2 * c >= loc.tau_exp
           /\ 2 * (c - 1) < loc.tau_exp
           /\ loc.sample = hist.chain_at_check - loc.burn
           /\ loc.sample < 1 => loc.converged = "False"
           /\ loc.sample >= 1 =>
                /\ DOMAIN loc.tau_int = 1..loc.parameters
                /\ loc.converged = "True" <=>
                      \A p \in 1..loc.parameters :
                         kwd.walkers * loc.sample >
                            kwd.minimum_effective_independent_samples
                                * 2 * loc.tau_int[p]

\* C3 witness: a check with remaining >= 1 that marks the run converged.
C3_Witness ==
    /\ AutoRuns
    /\ hist.checks >= 1
    /\ loc.sample >= 1
    /\ loc.converged = "True"

\* C4: every sampler step of _sample whose mean acceptance fraction is exactly
\* 0 or 1 is the last step taken and ends the call with a RuntimeError, and a
\* RuntimeError ends the call only at such a step.
C4_AcceptanceGuard ==
    (InferRuns /\ smp.taken >= 1) =>
        /\ \A j \in 1..smp.taken :
              Degenerate(smp.mean_acceptance_fraction[j]) =>
                 /\ j = smp.taken
                 /\ error.name = "RuntimeError"
        /\ error.name = "RuntimeError" =>
              Degenerate(smp.mean_acceptance_fraction[smp.taken])

\* C5: infer raises ValueError when walkers is odd or below twice the number
\* of parameters, with nothing pushed, no sampler created and no step taken;
\* for an even walkers >= 2 * parameters the walkers check does not raise.
C5_WalkersChecked ==
    InferRuns =>
        IF kwd.walkers % 2 = 1 \/ kwd.walkers < 2 * loc.parameters
        THEN /\ pc = "raised"
             /\ error.name = "ValueError"
             /\ hist.pushes = 0
             /\ binning_matrices = hist.stack_at_call
             /\ ~sampler.created
             /\ sampler.n_steps = 0
        ELSE error.line # 317

\* C5 witness: an even number of walkers refused for being too few.
C5_Witness ==
    /\ InferRuns
    /\ pc = "raised"
    /\ error.line = 317
    /\ kwd.walkers % 2 = 0
    /\ kwd.walkers < 2 * loc.parameters

\* C6: a fixed-mode infer that reaches production has run exactly burn steps
\* and reset the chain once, and starts production from the state at the end
\* of the burn; when it returns, production ran exactly sample steps,
\* converged is None, the returned chain is the burn steps followed by the
\* production steps, and the percentiles are taken from the production steps.
C6_FixedBurnThenSample ==
    /\ (FixedRuns /\ pc \in {"sample_production", "after_production", "returned"}) =>
          /\ loc.burn_chains = [j \in 1..kwd.burn |-> j]
          /\ hist.resets = 1
          /\ smp.p0 = kwd.burn
          /\ loc.converged = "None"
    /\ (FixedRuns /\ pc = "returned") =>
          /\ loc.production_chains = [j \in 1..kwd.sample |-> kwd.burn + j]
          /\ hist.sample_calls = 2
          /\ loc.chains = [j \in 1..(kwd.burn + kwd.sample) |-> j]
          /\ loc.percentile_source = loc.production_chains

\* C6 witness: a fixed-mode infer has returned.
C6_Witness == FixedRuns /\ pc = "returned"

\* C7: a call of optimise or infer that returns normally, without
\* __keep_convolution_functions, pushed one entry and popped one, and leaves
\* the stack as it was before the call.
C7_StackRestored ==
    (pc = "returned" /\ (InferRuns => ~kwd.keep_convolution_functions)) =>
        /\ hist.pushes = 1
        /\ hist.pops = 1
        /\ binning_matrices = hist.stack_at_call

\* C7 witness: an infer has returned onto a stack that was not empty.
C7_Witness ==
    /\ pc = "returned"
    /\ InferRuns
    /\ ~kwd.keep_convolution_functions
    /\ Len(hist.stack_at_call) >= 1

\* C8: when the sampler has a pool and the run has ended, converged or
\* exhausted, the pool was closed and then joined.
C8_PoolClosedAndJoined ==
    (AutoRuns /\ Ended /\ sampler.pool
        /\ (\/ loc.converged = "True"
            \/ (loc.converged = "False"
                    /\ loc.total_steps >= kwd.maximum_sample))) =>
        sampler.pool_log = <<"close", "join">>

\* C9 as claimed: every evaluation of a run uses the entry this run pushed
\* and every teardown removes the entry this run pushed, however the runs
\* of different threads interleave.
C9_OwnFunctions ==
    \A t \in Threads :
        /\ runs[t].used # "other"
        /\ runs[t].popped # "other"

\* C9 amended: an evaluation uses, and a teardown removes, the entry this run
\* pushed whenever no other run has pushed or popped since this run pushed.
C9_OwnFunctionsUndisturbed ==
    \A t \in Threads :
        /\ runs[t].used_alone => runs[t].used # "other"
        /\ runs[t].popped_alone => runs[t].popped # "other"

\* C9 witness: a run evaluates and tears down undisturbed while the entry of
\* another run lies below its own.
C9_Witness ==
    \E t \in Threads :
        /\ runs[t].used_alone
        /\ runs[t].popped_alone
        /\ runs[t].used = "own"
        /\ runs[t].popped = "own"
        /\ Len(binning_matrices) >= 1

\* C10: model.infer is called right after model.optimise has returned and is
\* given the Theta optimise returned; model.optimise is called right after
\* model.estimate has returned and is given its Theta, or first of all with
\* the configured initial_theta when that covers every model parameter.
C10_StagesInOrder ==
    \A k \in 1..Len(cli.log) :
        /\ cli.log[k].stage = "infer" =>
              /\ k > 1
              /\ cli.log[k - 1].stage = "optimise"
              /\ cli.log[k - 1].ok
              /\ cli.log[k].given = cli.log[k - 1].returned
        /\ cli.log[k].stage = "optimise" =>
              \/ /\ k > 1
                 /\ cli.log[k - 1].stage = "estimate"
                 /\ cli.log[k - 1].ok
                 /\ cli.log[k].given = cli.log[k - 1].returned
              \/ /\ k = 1
                 /\ cli.log[k].given = cli.configuration
                 /\ DOMAIN cli.configuration = CliParameters
        /\ cli.log[k].stage = "estimate" => k = 1

\* C10 witness: all three stages have run, estimate first.
C10_Witness ==
    /\ cli.pc = "done"
    /\ Len(cli.log) = 3
    /\ cli.log[1].stage = "estimate"
    /\ cli.log[3].stage = "infer"

\* Sources the loop of `solve` is to analyse: not skipped, within
\* number_to_solve, and without a result file that may not be overwritten.
ToAnalyse(j) ==
    LET a == batch.args
    IN /\ j \in 1..Len(batch.fails)
       /\ ~(a.skip > j - 1)
       /\ (a.number_to_solve.all \/ j <= a.number_to_solve.count + a.skip)
       /\ ~(j \in a.existing /\ ~a.clobber)

\* The stage in which the analysis of source j raises, "none" when it runs
\* through (model.optimise is only called when the settings ask for it).
FailsIn(j) ==
    IF batch.fails[j] = "optimise" /\ ~batch.args.optimise
    THEN "none" ELSE batch.fails[j]

\* C11: with debug off, once `solve` has ended it has ended normally, and
\* every source it was to analyse was started; a source whose initial
\* estimate, optimise or infer raised has its failure logged and no result
\* file written, every other started source has its result file written.
C11_FailuresIsolated ==
    (batch.pc \in {"done", "raised"} /\ ~batch.args.debug) =>
        /\ batch.pc = "done"
        /\ \A j \in Sources :
              ToAnalyse(j) =>
                 /\ j \in batch.started
                 /\ IF FailsIn(j) = "none"
                    THEN j \in batch.written
                    ELSE /\ j \notin batch.written
                         /\ \E k \in 1..Len(batch.log) :
                               batch.log[k] = [event |-> "failed", source |-> j]

\* The last call on the Models object was get_nearest_neighbours with a
\* point of the grid's dimensionality.
NeighboursAsked ==
    /\ grid.call.op = "get_nearest_neighbours"
    /\ Len(grid.call.point) = GridDimension(grid.grid_points)
OutsideGrid(point, grid_points) ==
    \E i \in 1..Len(point) :
        \/ point[i] < SetMin(Column(grid_points, i))
        \/ point[i] > SetMax(Column(grid_points, i))
StrictlyInsideGrid(point, grid_points) ==
    \A i \in 1..Len(point) :
        /\ point[i] > SetMin(Column(grid_points, i))
        /\ point[i] < SetMax(Column(grid_points, i))

\* C12: get_nearest_neighbours(point, n=1) with a point of the right length
\* does not raise; it returns the empty index set when the point lies
\* outside the grid's minimum/maximum in some dimension and a non-empty one
\* when the point lies strictly inside them in every dimension.
C12_NeighboursNeverRaise ==
    (NeighboursAsked /\ grid.call.n = 1) =>
        /\ grid.error.name = "none"
        /\ grid.returned
        /\ OutsideGrid(grid.call.point, grid.grid_points) => grid.indices = {}
        /\ StrictlyInsideGrid(grid.call.point, grid.grid_points) =>
                grid.indices # {}

\* C13 as claimed: get_nearest_neighbours raises ShapeError when the length
\* of the point differs from the grid's dimensionality, and ValueError when
\* n < 1; it returns no index set in either case.
C13_ShapeErrorAndValueError ==
    grid.call.op = "get_nearest_neighbours" =>
        /\ Len(grid.call.point) # GridDimension(grid.grid_points) =>
                (grid.error.name = "ShapeError" /\ ~grid.returned)
        /\ (NeighboursAsked /\ grid.call.n < 1) =>
                (grid.error.name = "ValueError" /\ ~grid.returned)

\* C13 amended: get_nearest_neighbours raises ValueError when the length of
\* the point differs from the grid's dimensionality, and ValueError when
\* n < 1; it returns no index set in either case.
C13_ValueErrors ==
    grid.call.op = "get_nearest_neighbours" =>
        /\ Len(grid.call.point) # GridDimension(grid.grid_points) =>
                /\ grid.error = [name |-> "ValueError", line |-> 114]
                /\ ~grid.returned /\ grid.indices = {}
        /\ (NeighboursAsked /\ grid.call.n < 1) =>
                /\ grid.error = [name |-> "ValueError", line |-> 121]
                /\ ~grid.returned /\ grid.indices = {}

\* C13 witness: a point with one value was asked about on a grid in the
\* plane, for one neighbour, and the call raised ValueError.
C13_Witness ==
    /\ grid.call.op = "get_nearest_neighbours"
    /\ Len(grid.call.point) < GridDimension(grid.grid_points)
    /\ grid.call.n = 1
    /\ grid.error.name = "ValueError"

\* C14: once Models is constructed from two beams that list the same grid
\* points, in whatever order, the i-th flux file of every beam is that
\* beam's file of the i-th grid point.
C14_BeamsOnFirstOrdering ==
    (/\ grid.pc = "constructed"
     /\ Cardinality(grid.beams) >= 2
     /\ \A b \in grid.beams :
            Range(grid.points[b]) = Range(grid.points[FirstBeam])) =>
        \A b \in grid.beams : \A i \in 1..Len(grid.grid_points) :
            grid.flux_filenames[b][i] = FluxFile(b, grid.grid_points[i])

\* C15: interpolate_flux(p) with kind="nearest", for a point p of the grid,
\* returns for each beam the flux stored for p.
C15_NearestReturnsStoredFlux ==
    (/\ grid.call.op = "interpolate_flux"
     /\ grid.call.kind = "nearest"
     /\ grid.call.beams = "all"
     /\ grid.call.point \in Range(grid.grid_points)) =>
        /\ grid.returned
        /\ grid.error.name = "none"
        /\ grid.flux = [b \in grid.beams |->
                            FluxFile(b, grid.call.point)]

\* The matched channels of the evaluation that has just been made.
Evaluated ==
    {i \in 1..Len(evaluation.results) : evaluation.results[i].channel # "None"}

\* C16: in Model.__call__ every matched channel is binned at theta's
\* per-channel redshift (resolution) when theta has it, at the global one
\* when theta has only that, and at 0 when it has neither.
C16_PerChannelValueFirst ==
    evaluation.pc = "called" =>
        \A i \in Evaluated :
            LET r == evaluation.results[i]
                theta == evaluation.theta
            IN /\ r.z = Get(theta, ChannelName("z", r.channel),
                            Get(theta, "z", 0))
               /\ r.resolution =
                    Get(theta, ChannelName("resolution", r.channel),
                        Get(theta, "resolution", 0))

\* The polynomial whose coefficient of degree j is theta's continuum
\* coefficient j of the channel, over the indices in J.
RECURSIVE PolynomialOver(_, _, _, _)
PolynomialOver(theta, channel, J, w) ==
    IF J = {} THEN 0
    ELSE LET j == SetMax(J)
         IN theta[ContinuumName(channel, j)] * Power(w, j)
                + PolynomialOver(theta, channel, J \ {j}, w)
\* The indices of the continuum coefficients theta has for the channel, and
\* those it has without a gap from index 0.
Present(theta, channel) ==
    {j \in 0..MaxDegree : ContinuumName(channel, j) \in DOMAIN theta}
Consecutive(theta, channel) ==
    {j \in 0..MaxDegree : \A k \in 0..j : k \in Present(theta, channel)}

\* C17 as claimed: the model flux of a matched channel is the binned flux
\* times the value of the polynomial of the channel's continuum
\* coefficients, and the binned flux itself when coefficient 0 is absent.
C17_TimesPolynomial ==
    evaluation.pc = "called" =>
        \A i \in Evaluated : \A px \in 1..Len(Disp) :
            LET r == evaluation.results[i]
                theta == evaluation.theta
            IN r.channel_fluxes[px] =
                 r.binned_flux[px] *
                    (IF 0 \in Present(theta, r.channel)
                     THEN PolynomialOver(theta, r.channel,
                            Present(theta, r.channel), Disp[px])
                     ELSE 1)

\* C17 amended: the model flux of a matched channel is the binned flux times
\* the absolute value of the polynomial of the channel's continuum
\* coefficients that are present without a gap from index 0, and the binned
\* flux itself when coefficient 0 is absent.
C17_TimesAbsolutePolynomial ==
    evaluation.pc = "called" =>
        \A i \in Evaluated : \A px \in 1..Len(Disp) :
            LET r == evaluation.results[i]
                theta == evaluation.theta
                value == PolynomialOver(theta, r.channel,
                            Consecutive(theta, r.channel), Disp[px])
            IN r.channel_fluxes[px] =
                 r.binned_flux[px] *
                    (IF 0 \in Present(theta, r.channel)
                     THEN (IF value < 0 THEN -value ELSE value)
                     ELSE 1)

\* C17 witness: a channel was evaluated with a continuum polynomial that is
\* negative at a pixel, and its model flux there is positive.
C17_Witness ==
    /\ evaluation.pc = "called"
    /\ \E i \in Evaluated : \E px \in 1..Len(Disp) :
          LET r == evaluation.results[i]
          IN /\ 0 \in Present(evaluation.theta, r.channel)
             /\ PolynomialOver(evaluation.theta, r.channel,
                    Consecutive(evaluation.theta, r.channel), Disp[px]) < 0
             /\ r.binned_flux[px] > 0
             /\ r.channel_fluxes[px] > 0

\* The channels for which the stage has created a convolution function.
Created ==
    {i \in 1..Len(evaluation.matched_channels) :
        evaluation.matched_channels[i] # "None"}
\* Redshifts and resolutions a convolution function is called with.
RedshiftArguments == {0, 1}
ResolutionArguments == {-1, 0, 5}

\* C18: the function created for a matched channel blurs by the resolution
\* it is called with (and not at all when that is <= 0) when the channel's
\* resolution is free under its own or the global name; it resamples at the
\* redshift it is called with, without blur, when only the redshift is
\* free; and it is the fixed transform when neither is free.
C18_StrategyByFreeParameters ==
    evaluation.pc = "ready" =>
        \A i \in Created :
            LET channel == evaluation.matched_channels[i]
                free == evaluation.free_parameters
                entry == ActiveConvolutionFunctions(binning_matrices)
                f == entry.functions[i]
                redshift == "z" \in free \/ ChannelName("z", channel) \in free
                resolution ==
                    \/ "resolution" \in free
                    \/ ChannelName("resolution", channel) \in free
            IN /\ resolution => f \in {"blur_interp", "blurry_box"}
               /\ (redshift /\ ~resolution) => f \in {"interp", "box"}
               /\ (~redshift /\ ~resolution) =>
                        f \in {"static_interp", "static_matrix"}
               /\ \A z \in RedshiftArguments, R \in ResolutionArguments :
                    LET called == CallConvolutionFunction(entry, i, z, R)
                    IN called.raised = "none" =>
                        /\ resolution =>
                              ((called.binned.blur # NoBlur) <=> (R > 0))
                        /\ (redshift /\ ~resolution) =>
                              /\ called.binned.shift = z
                              /\ called.binned.blur = NoBlur

\* C19: the function created for a channel with neither redshift nor
\* resolution free returns, whatever redshift and resolution it is called
\* with, the model flux resampled at the channel's fixed redshift (fixed
\* z_{channel}, else fixed z, else 0) onto the channel's own pixels.
C19_FixedTransform ==
    evaluation.pc = "ready" =>
        \A i \in Created :
            LET channel == evaluation.matched_channels[i]
                free == evaluation.free_parameters
                fixed == evaluation.fixed_parameters
                entry == ActiveConvolutionFunctions(binning_matrices)
            IN (/\ ~RedshiftFree(channel, free)
                /\ ~ResolutionFree(channel, free)
                /\ "resolution" \notin free) =>
                    \A z \in RedshiftArguments, R \in ResolutionArguments :
                        CallConvolutionFunction(entry, i, z, R) =
                            Returns(Binned(i,
                                Get(fixed, ChannelName("z", channel),
                                    Get(fixed, "z", 0)),
                                NoBlur))

\* C20: when Model.optimise or Model.infer has returned or raised, the
\* dicts the caller passed (initial_theta or initial_proposal, and fixed)
\* have the keys and values they had at the call, and the Theta returned is
\* none of the caller's objects.
C20_CallerThetaUnchanged ==
    mappings.pc \in {"returned", "raised"} =>
        /\ \A o \in DOMAIN mappings.before :
                mappings.heap[o] = mappings.before[o]
        /\ mappings.pc = "returned" =>
                /\ mappings.returned \notin DOMAIN mappings.before
                /\ mappings.returned \in DOMAIN mappings.heap

\* C20 witness: Model.optimise has returned a Theta to a caller that passed
\* an empty `fixed` dict, and the Theta holds every stage parameter.
C20_Witness ==
    /\ mappings.pc = "returned"
    /\ mappings.stage = "optimise"
    /\ "fixed" \in DOMAIN mappings.before
    /\ DOMAIN mappings.before["fixed"] = {}
    /\ DOMAIN mappings.heap[mappings.returned] = StageParameters

\* C21: a call of _sample in which no step has a mean acceptance fraction of
\* 0 or 1 does not raise, and once it has returned it has taken all
\* `iterations` steps, made one progress update per step, and holds a
\* mean-acceptance-fraction array of length `iterations`.
C21_OneUpdatePerStep ==
    /\ (pc = "raised" /\ error.line \in {608, 638, 641, 643}) =>
            \E j \in 1..smp.taken : Degenerate(smp.mean_acceptance_fraction[j])
    /\ pc \in {"after_initial", "after_burn", "after_production",
               "after_extra"} =>
            /\ smp.taken = smp.iterations
            /\ smp.updates = smp.iterations
            /\ Len(smp.mean_acceptance_fraction) = smp.iterations

\* C22: once a converged run has separated its samples, the burn segments of
\* the chain and of the log-probability array hold the steps [0, burn) of
\* every walker and the production segments the steps [burn, end); stacking
\* them does not raise and gives back arrays of the sampler's shape.
C22_SplitAtSameStep ==
    /\ segments.pc # "start" =>
        /\ segments.burn_chains = StepsTo(segments.chain, segments.burn)
        /\ segments.production_chains =
                StepsFrom(segments.chain, segments.burn)
        /\ segments.burn_ln_probabilities =
                StepsTo(segments.lnprobability, segments.burn)
        /\ segments.production_ln_probabilities =
                StepsFrom(segments.lnprobability, segments.burn)
    /\ segments.pc # "raised"
    /\ segments.pc = "stacked" =>
        /\ segments.chains = segments.chain
        /\ segments.stacked_lnprobability = segments.lnprobability

\* The `fixed` dict the caller of optimise passed, empty when none was.
FixedGiven ==
    IF "fixed" \in DOMAIN mappings.before THEN mappings.before["fixed"]
    ELSE <<>>
\* The value the caller fixed the parameter k at.
FixedValue(k) ==
    IF FixedGiven[k] = NoneValue THEN mappings.before["initial_theta"][k]
    ELSE FixedGiven[k]

\* C23: in optimise the fixed parameters are the keys of `fixed` that are
\* stage parameters, each at its given value or, for None, at the value of
\* initial_theta; the minimiser gets the other parameters, each with its
\* explicit bound, else the approximator's, else (None, None); the Theta
\* returned has every stage parameter as a key and the fixed values in it.
C23_FixedAndBounds ==
    (mappings.stage = "optimise" /\ mappings.pc \in {"minimise", "returned"}) =>
        LET kept == DOMAIN FixedGiven \cap StageParameters
            fixed == mappings.heap[mappings.fixed]
        IN /\ DOMAIN fixed = kept
           /\ \A k \in kept : fixed[k] = FixedValue(k)
           /\ mappings.parameters = StageParameters \ kept
           /\ DOMAIN mappings.bounds = mappings.parameters
           /\ \A p \in mappings.parameters :
                mappings.bounds[p] =
                    IF p \in DOMAIN mappings.input_bounds
                    THEN mappings.input_bounds[p]
                    ELSE IF p \in DOMAIN mappings.subset_bounds
                    THEN mappings.subset_bounds[p]
                    ELSE <<NoneValue, NoneValue>>
           /\ mappings.pc = "returned" =>
                /\ DOMAIN mappings.heap[mappings.returned] = StageParameters
                /\ \A k \in kept :
                        mappings.heap[mappings.returned][k] = FixedValue(k)

\* C23 witness: optimise has returned for a caller who fixed z at None and
\* logg at a value, named a key that is no parameter, and gave teff, the one
\* free parameter, an explicit bound besides the approximator's.
C23_Witness ==
    /\ mappings.stage = "optimise"
    /\ mappings.pc = "returned"
    /\ DOMAIN FixedGiven = FixedNames
    /\ FixedGiven["z"] = NoneValue
    /\ FixedGiven["logg"] # NoneValue
    /\ "teff" \in DOMAIN mappings.input_bounds
    /\ "teff" \in DOMAIN mappings.subset_bounds
    /\ mappings.parameters = {"teff"}

\* C24: after a convergence check at which the estimate of the exponential
\* autocorrelation time raised, tau_exp is the number of steps taken so far,
\* burn is at least the length of the chain, the check has neither declared
\* convergence nor ended the run, and another _sample call has been made.
C24_RecoversFromTauExp ==
    loc.tau_exp_raised =>
        /\ loc.burn >= hist.chain_at_check
        /\ loc.sample < 1
        /\ loc.converged = "False"
        /\ hist.passed = 0
        /\ hist.sample_calls = hist.checks + 1
        /\ pc = "raised" => error.line \notin {483, 498}
        /\ pc = "sample_extra" =>
                /\ loc.tau_exp = Halves(loc.total_steps)
                /\ loc.tau_exp = Halves(hist.chain_at_check)
                /\ smp.iterations = kwd.check_convergence_frequency

\* C24 witness: the estimate raised at the check and the batch that followed
\* has taken all its steps.
C24_Witness ==
    /\ loc.tau_exp_raised
    /\ pc = "sample_extra"
    /\ kwd.n_tau_exp_as_burn_in > 1
    /\ smp.taken = kwd.check_convergence_frequency

\* np.ceil(a / b) for whole numbers a and b > 0.
CeilDiv(a, b) == (a + b - 1) \div b

\* The bounds of C25 on the auto-mode run in progress.
LoopBounded ==
    (pc # "idle" /\ kwd.func = "infer" /\ kwd.auto_convergence) =>
        /\ hist.sample_calls - 1 <=
                IF kwd.maximum_sample > kwd.minimum_sample
                THEN CeilDiv(kwd.maximum_sample - kwd.minimum_sample,
                             kwd.check_convergence_frequency)
                ELSE 0
        /\ pc = "sample_extra" => loc.total_steps < kwd.maximum_sample
        /\ sampler.n_steps <=
                IF kwd.minimum_sample >= kwd.maximum_sample
                THEN kwd.minimum_sample
                ELSE kwd.maximum_sample + kwd.check_convergence_frequency - 1

\* C25: the auto-convergence loop ends, by a return or an exception; it makes
\* at most ceil((maximum_sample - minimum_sample) / check_convergence_frequency)
\* extra _sample calls, none once total_steps >= maximum_sample, and the steps
\* taken never exceed maximum_sample + check_convergence_frequency - 1
\* (minimum_sample when minimum_sample >= maximum_sample).
C25_LoopTerminates ==
    /\ []LoopBounded
    /\ (pc = "loop") ~> (pc \in {"returned", "raised"})

\* C25 witness: an extra batch has taken the run past maximum_sample.
C25_Witness ==
    /\ pc = "after_extra"
    /\ kwd.auto_convergence
    /\ sampler.n_steps > kwd.maximum_sample

\* C26: the convolution function stored for a matched channel returns the
\* flux binned onto the pixels of that channel's own spectrum, blurred, if at
\* all, at that spectrum's own scale, whatever arguments it is called with.
C26_OwnTransform ==
    evaluation.pc = "ready" =>
        \A i \in Created :
            \A z \in RedshiftArguments, R \in ResolutionArguments :
                LET entry == ActiveConvolutionFunctions(binning_matrices)
                    result == CallConvolutionFunction(entry, i, z, R)
                IN /\ result.raised = "none"
                   /\ result.binned.onto = i
                   /\ result.binned.blur \in {NoBlur, Blur(i, R)}

\* C27: in every call of the objective function of optimise the name list
\* and the value vector passed on have the same length, the free parameters
\* come first with the minimiser's values, and every fixed parameter's name
\* stands at the position of its fixed value.
C27_NamesMatchValues ==
    mappings.objective.called =>
        LET p_ == mappings.objective.p_
            t_ == mappings.objective.t_
            theta == mappings.objective.theta
            parameters == ParameterList(mappings.parameters)
            fixed == mappings.heap[mappings.fixed]
        IN /\ Len(p_) = Len(t_)
           /\ Len(p_) = Len(parameters) + Cardinality(DOMAIN fixed)
           /\ \A j \in 1..Len(p_) :
                /\ j <= Len(t_)
                /\ IF j <= Len(parameters)
                   THEN p_[j] = parameters[j] /\ t_[j] = theta[j]
                   ELSE p_[j] \in DOMAIN fixed /\ t_[j] = fixed[p_[j]]

\* C28: for a point of a later beam that is not in the grid of the first
\* beam, check_grid_point gives a result that is no index of the grid, so
\* the constructor does not take the file at position 0 for that point.
C28_NotFoundIsNoIndex ==
    grid.pc = "constructed" =>
        \A b \in grid.beams : \A j \in 1..Len(grid.points[b]) :
            grid.points[b][j] \notin Range(grid.grid_points) =>
                CheckGridPoint(grid.grid_points, grid.points[b][j])
                    \notin 0..(Len(grid.grid_points) - 1)

\* C29: when optimise or infer has ended with an exception after it pushed
\* its convolution functions, the stack is what it was at the call, and the
\* pool of the sampler, if it has one, was closed and joined.
C29_AbortCleansUp ==
    (pc = "raised" /\ hist.pushes > 0) =>
        /\ binning_matrices = hist.stack_at_call
        /\ sampler.pool => sampler.pool_log = <<"close", "join">>

\* C30: whenever estimate has returned, the theta it returned has a value
\* for every model parameter that is not ignored, the grid dimensions among
\* them, and optimise's read of the grid dimensions does not raise.
C30_EstimateIsComplete ==
    /\ estimation.pc \in {"returned", "read"} =>
            (estimation.parameters \ estimation.ignore_parameters)
                \subseteq estimation.theta
    /\ ~(estimation.pc = "raised" /\ estimation.error.line = 859)

====
